---- MODULE Spec2Model ----
(***************************************************************************)
(* Verification model of feos-gc-pcsaft: the three parameter assemblers    *)
(* (eos/parameter.rs, dft/parameter.rs, parameters.rs), the two facades    *)
(* (eos/mod.rs, dft/mod.rs) and the cross-association solver               *)
(* (eos/association.rs).                                                   *)
(*                                                                         *)
(* Numbers.  Floating-point parameters are modelled by integers chosen so  *)
(* that every combining rule is exact: all sigma are even squares, all     *)
(* epsilon_k are squares whose roots are multiples of 4, kappa_ab are      *)
(* squares, epsilon_k_ab are even, and a binary interaction coefficient is *)
(* given in percent (k = 25 stands for 0.25).  Option<T> is a sequence:    *)
(* None is <<>>, Some(v) is <<v>>.  Indices keep the 0-based values of the *)
(* code; TLA+ sequences are 1-based, so array[i] is written array[i + 1].  *)
(***************************************************************************)
EXTENDS Integers, Sequences, FiniteSets, TLC

VARIABLES
    kind,                    \* which assembler built params: "eos", "dft", "gc"
    chemical_records,        \* input: Vec of molecule topologies
    binary_segment_records,  \* input: Option<Vec<BinaryRecord>>
    phase,                   \* "input", "assembled", "failed", "subset", "facade"
    params,                  \* Result of from_segments
    component_list,          \* argument of the last subset call
    sub,                     \* Option: result of the last subset call
    facade,                  \* Option: the facade built by with_options
    solver,                  \* state of one CrossAssociation::helmholtz_energy call
    loader,                  \* state of one from_json_segments call
    returned                 \* Option: value returned by a query on the facade

vars == <<kind, chemical_records, binary_segment_records, phase, params,
          component_list, sub, facade, solver, loader, returned>>

asm_vars == <<kind, chemical_records, binary_segment_records, phase, params,
              component_list, sub, facade, loader, returned>>

----------------------------------------------------------------------------
(* Bounds of the model. *)

\* largest number of molecules in an assembled mixture
MaxMol == 2

----------------------------------------------------------------------------
(* Option, folds and arithmetic helpers. *)

None == <<>>

Some(v) == <<v>>

is_some(o) == o # <<>>

unwrap(o) == o[1]

unwrap_or(o, d) == IF o = <<>> THEN d ELSE o[1]

Max(S) == CHOOSE x \in S : \A y \in S : y <= x

Min(S) == CHOOSE x \in S : \A y \in S : x <= y

\* f64::sqrt on the perfect squares the catalogue produces
sqrt(v) == CHOOSE r \in 0..v : r * r = v

\* the distinct elements of a sequence
Range(s) == {s[k] : k \in 1..Len(s)}

\* all orders in which the elements of a finite set can be iterated
Orderings(S) ==
    {p \in [1..Cardinality(S) -> S] : \A a, b \in 1..Cardinality(S) : a # b => p[a] # p[b]}

\* first position of every distinct element, in order of first appearance
RECURSIVE first_appearance(_)
first_appearance(s) ==
    IF s = <<>> THEN <<>>
    ELSE LET init == first_appearance(SubSeq(s, 1, Len(s) - 1))
             last == s[Len(s)]
         IN IF last \in Range(init) THEN init ELSE Append(init, last)

----------------------------------------------------------------------------
(* The segment record store and the molecule catalogue. *)

\* Vec<SegmentRecord<GcPcSaftRecord, JobackRecord>>.  The records of CH3 and
\* CH2 are incomplete association records: CH3 gives epsilon_k_ab only, CH2
\* gives kappa_ab (and na) only
segment_records ==
    << [identifier |-> "CH3", molarweight |-> 15, m |-> 3, sigma |-> 4,
        epsilon_k |-> 16, kappa_ab |-> None, epsilon_k_ab |-> Some(10),
        na |-> None, nb |-> None],
       [identifier |-> "CH2", molarweight |-> 14, m |-> 2, sigma |-> 16,
        epsilon_k |-> 64, kappa_ab |-> Some(9), epsilon_k_ab |-> None,
        na |-> Some(2), nb |-> None],
       [identifier |-> "OH", molarweight |-> 17, m |-> 1, sigma |-> 4,
        epsilon_k |-> 144, kappa_ab |-> Some(1), epsilon_k_ab |-> Some(20),
        na |-> None, nb |-> None],
       [identifier |-> "NH2", molarweight |-> 16, m |-> 5, sigma |-> 16,
        epsilon_k |-> 16, kappa_ab |-> Some(4), epsilon_k_ab |-> Some(30),
        na |-> Some(2), nb |-> Some(1)] >>

\* ChemicalRecord::new(identifier, segments, None): the default bonds of a
\* molecule given without a bond list join neighbours in the segment list
chain_bonds(segments) == [b \in 1..(Len(segments) - 1) |-> <<b - 1, b>>]

ChemicalRecord(name, segments, bonds) ==
    [name |-> name, segments |-> segments, bonds |-> bonds]

\* the molecules a mixture is drawn from ("X" has no segment record)
Catalogue ==
    { ChemicalRecord("propane", <<"CH3", "CH2", "CH3">>,
                     chain_bonds(<<"CH3", "CH2", "CH3">>)),
      ChemicalRecord("methanol", <<"CH3", "OH">>, chain_bonds(<<"CH3", "OH">>)),
      ChemicalRecord("glycol", <<"OH", "CH2", "CH2", "OH">>,
                     chain_bonds(<<"OH", "CH2", "CH2", "OH">>)),
      ChemicalRecord("methylamine", <<"CH3", "NH2">>,
                     chain_bonds(<<"CH3", "NH2">>)),
      ChemicalRecord("water", <<"OH">>, <<>>),
      ChemicalRecord("unknown", <<"CH3", "X">>, chain_bonds(<<"CH3", "X">>)) }

BinaryRecord(id1, id2, model_record) ==
    [id1 |-> id1, id2 |-> id2, model_record |-> model_record]

\* the binary record lists a mixture is assembled with
BinaryChoices ==
    { None,
      Some(<< BinaryRecord("CH3", "OH", -25) >>),
      Some(<< BinaryRecord("CH3", "OH", 25), BinaryRecord("OH", "CH3", 50) >>),
      Some(<< BinaryRecord("CH2", "OH", 25), BinaryRecord("CH2", "OH", 75),
              BinaryRecord("CH2", "CH2", 50) >>) }

----------------------------------------------------------------------------
(* Assembly: the flat arrays filled while the molecules are walked. *)

\* the `let mut` vectors at the head of from_segments
new_arrays(n_molecules) ==
    [ molarweight |-> [c \in 1..n_molecules |-> 0],
      component_index |-> <<>>, identifiers |-> <<>>,
      m |-> <<>>, sigma |-> <<>>, epsilon_k |-> <<>>,
      assoc_segment |-> <<>>, n |-> <<>>, kappa_ab |-> <<>>,
      epsilon_k_ab |-> <<>>, na |-> <<>>, nb |-> <<>> ]

\* segment_map.get(id): the map is collected from the record list, a later
\* record with the same identifier replaces the earlier one
segment_map_get(records, id) ==
    LET hits == {k \in 1..Len(records) : records[k].identifier = id}
    IN IF hits = {} THEN None ELSE Some(records[Max(hits)])

\* mutant of push_association: an entry is recorded when either of kappa_ab
\* and epsilon_k_ab is present
push_association_either(arrays, segment, count, with_n) ==
    IF is_some(segment.kappa_ab) \/ is_some(segment.epsilon_k_ab)
    THEN [arrays EXCEPT
            !.assoc_segment = Append(@, Len(arrays.m) - 1),
            !.n = IF with_n THEN Append(@, count) ELSE @,
            !.kappa_ab = Append(@, unwrap_or(segment.kappa_ab, 0)),
            !.epsilon_k_ab = Append(@, unwrap_or(segment.epsilon_k_ab, 0)),
            !.na = Append(@, unwrap_or(segment.na, 1)),
            !.nb = Append(@, unwrap_or(segment.nb, 1))]
    ELSE arrays

\* mutant of push_association: a site count is pushed only when the record
\* gives it, without the default of 1
push_association_skip_default(arrays, segment, count, with_n) ==
    IF is_some(segment.kappa_ab) /\ is_some(segment.epsilon_k_ab)
    THEN [arrays EXCEPT
            !.assoc_segment = Append(@, Len(arrays.m) - 1),
            !.n = IF with_n THEN Append(@, count) ELSE @,
            !.kappa_ab = Append(@, unwrap(segment.kappa_ab)),
            !.epsilon_k_ab = Append(@, unwrap(segment.epsilon_k_ab)),
            !.na = IF is_some(segment.na) THEN Append(@, unwrap(segment.na)) ELSE @,
            !.nb = IF is_some(segment.nb) THEN Append(@, unwrap(segment.nb)) ELSE @]
    ELSE arrays

\* the association block of the segment loop: an entry is recorded when both
\* kappa_ab and epsilon_k_ab are present; `n` exists in the EOS variant only
push_association(arrays, segment, count, with_n) ==
    IF is_some(segment.kappa_ab) /\ is_some(segment.epsilon_k_ab)
    THEN [arrays EXCEPT
            !.assoc_segment = Append(@, Len(arrays.m) - 1),
            !.n = IF with_n THEN Append(@, count) ELSE @,
            !.kappa_ab = Append(@, unwrap(segment.kappa_ab)),
            !.epsilon_k_ab = Append(@, unwrap(segment.epsilon_k_ab)),
            !.na = Append(@, unwrap_or(segment.na, 1)),
            !.nb = Append(@, unwrap_or(segment.nb, 1))]
    ELSE arrays

\* mutant of push_segment: the molar weight of a merged entry is added once,
\* not count times
push_segment_single_weight(arrays, i, segment, count, with_n) ==
    push_association(
        [arrays EXCEPT
            !.molarweight[i + 1] = @ + segment.molarweight,
            !.component_index = Append(@, i),
            !.identifiers = Append(@, segment.identifier),
            !.m = Append(@, segment.m * count),
            !.sigma = Append(@, segment.sigma),
            !.epsilon_k = Append(@, segment.epsilon_k)],
        segment, count, with_n)

\* mutant of push_segment: the component index is counted from 1
push_segment_next_component(arrays, i, segment, count, with_n) ==
    push_association(
        [arrays EXCEPT
            !.molarweight[i + 1] = @ + segment.molarweight * count,
            !.component_index = Append(@, i + 1),
            !.identifiers = Append(@, segment.identifier),
            !.m = Append(@, segment.m * count),
            !.sigma = Append(@, segment.sigma),
            !.epsilon_k = Append(@, segment.epsilon_k)],
        segment, count, with_n)

\* the body of the segment loop for one entry of molecule i with multiplicity
\* count (count = 1 in the functional variant, which has no multiplicities)
push_segment(arrays, i, segment, count, with_n) ==
    push_association(
        [arrays EXCEPT
            !.molarweight[i + 1] = @ + segment.molarweight * count,
            !.component_index = Append(@, i),
            !.identifiers = Append(@, segment.identifier),
            !.m = Append(@, segment.m * count),
            !.sigma = Append(@, segment.sigma),
            !.epsilon_k = Append(@, segment.epsilon_k)],
        segment, count, with_n)

\* ChemicalRecord::segment_and_bond_count, first component: identifier -> count
segment_counts(chemical_record) ==
    [id \in Range(chemical_record.segments) |->
        Cardinality({k \in 1..Len(chemical_record.segments) :
                        chemical_record.segments[k] = id})]

\* mutant of bond_counts: every bonded pair of identifiers is counted once
bond_counts_distinct(chemical_record) ==
    LET key(b) == {chemical_record.segments[b[1] + 1],
                   chemical_record.segments[b[2] + 1]}
        all == 1..Len(chemical_record.bonds)
    IN [ids \in {key(chemical_record.bonds[k]) : k \in all} |-> 1]

\* ChemicalRecord::segment_and_bond_count, second component: the unordered
\* pair of the two bonded identifiers -> count
bond_counts(chemical_record) ==
    LET key(b) == {chemical_record.segments[b[1] + 1],
                   chemical_record.segments[b[2] + 1]}
        all == 1..Len(chemical_record.bonds)
    IN [ids \in {key(chemical_record.bonds[k]) : k \in all} |->
           Cardinality({k \in all : key(chemical_record.bonds[k]) = ids})]

\* the iteration orders of segment_counts: it is a hash map, so the order of
\* its entries is unspecified and differs from one map to the next
hash_orders(chemical_record) == Orderings(Range(chemical_record.segments))

\* mutant of insertion_order: every occurrence gets an entry of its own
insertion_order_every_occurrence(chemical_record) == chemical_record.segments

\* the order of an insertion-ordered map filled while walking the segments
insertion_order(chemical_record) == first_appearance(chemical_record.segments)

\* mutant of add_bond: the key keeps the order in which the indices are given
add_bond_as_given(bonds, i1, i2, count) ==
    LET indices == <<i1, i2>>
    IN IF indices \in DOMAIN bonds
       THEN [bonds EXCEPT ![indices] = @ + count]
       ELSE [k \in DOMAIN bonds \cup {indices} |->
                IF k = indices THEN count ELSE bonds[k]]

\* bonds.entry(indices).or_insert(0.0) += count
add_bond(bonds, i1, i2, count) ==
    LET indices == IF i1 > i2 THEN <<i2, i1>> ELSE <<i1, i2>>
    IN IF indices \in DOMAIN bonds
       THEN [bonds EXCEPT ![indices] = @ + count]
       ELSE [k \in DOMAIN bonds \cup {indices} |->
                IF k = indices THEN count ELSE bonds[k]]

\* an empty IndexMap<[usize; 2], f64>
no_bonds == [k \in {} |-> 0]

\* the segment loop of one molecule over its distinct identifiers in `order`
RECURSIVE push_counted(_, _, _, _, _, _, _)
push_counted(arrays, segment_indices, i, records, counts, order, with_n) ==
    IF order = <<>> THEN [arrays |-> arrays, segment_indices |-> segment_indices]
    ELSE LET id == Head(order)
             segment == unwrap(segment_map_get(records, id))
         IN push_counted(push_segment(arrays, i, segment, counts[id], with_n),
                         [x \in DOMAIN segment_indices \cup {id} |->
                             IF x = id THEN Len(arrays.m) ELSE segment_indices[x]],
                         i, records, counts, Tail(order), with_n)

\* the bond loop of the EOS variant over the entries of bond_counts
RECURSIVE eos_bonds(_, _, _, _)
eos_bonds(bonds, keys, counts, segment_indices) ==
    IF keys = {} THEN bonds
    ELSE LET b == CHOOSE x \in keys : TRUE
             b0 == CHOOSE s \in b : TRUE
             b1 == IF Cardinality(b) = 1 THEN b0 ELSE CHOOSE s \in b : s # b0
         IN eos_bonds(add_bond(bonds, segment_indices[b0], segment_indices[b1],
                               counts[b]),
                      keys \ {b}, counts, segment_indices)

\* the bond loop of parameters.rs over the bond list of the molecule
RECURSIVE gc_bonds(_, _, _)
gc_bonds(bonds, chemical_record, segment_indices) ==
    IF chemical_record.bonds = <<>> THEN bonds
    ELSE LET b == Head(chemical_record.bonds)
             s1 == chemical_record.segments[b[1] + 1]
             s2 == chemical_record.segments[b[2] + 1]
         IN gc_bonds(add_bond(bonds, segment_indices[s1], segment_indices[s2], 1),
                     [chemical_record EXCEPT !.bonds = Tail(@)], segment_indices)

\* mutant of first_unknown: when an identifier has no record, the first
\* identifier of the order is named
first_unknown_names_head(records, order) ==
    IF \E k \in 1..Len(order) : segment_map_get(records, order[k]) = None
    THEN Some(order[1])
    ELSE None

\* the first identifier of `order` without a segment record, if any
RECURSIVE first_unknown(_, _)
first_unknown(records, order) ==
    IF order = <<>> THEN None
    ELSE IF segment_map_get(records, Head(order)) = None THEN Some(Head(order))
    ELSE first_unknown(records, Tail(order))

ComponentsNotFound(id) == [ok |-> FALSE, error |-> "ComponentsNotFound", id |-> id]

\* the molecule loop of the EOS variant (orders[i]: the hash order of molecule i)
\* and of parameters.rs (orders[i]: the insertion order of molecule i)
RECURSIVE counted_molecules(_, _, _, _, _, _, _)
counted_molecules(arrays, bonds, i, records, molecules, orders, is_eos) ==
    IF i >= Len(molecules) THEN [ok |-> TRUE, arrays |-> arrays, bonds |-> bonds]
    ELSE LET chemical_record == molecules[i + 1]
             order == orders[i + 1]
             missing == first_unknown(records, IF is_eos THEN order
                                               ELSE chemical_record.segments)
         IN IF is_some(missing) THEN ComponentsNotFound(unwrap(missing))
            ELSE LET pushed == push_counted(arrays, [x \in {} |-> 0], i, records,
                                            segment_counts(chemical_record),
                                            order, is_eos)
                     bonded == IF is_eos
                               THEN eos_bonds(bonds,
                                              DOMAIN bond_counts(chemical_record),
                                              bond_counts(chemical_record),
                                              pushed.segment_indices)
                               ELSE gc_bonds(bonds, chemical_record,
                                             pushed.segment_indices)
                 IN counted_molecules(pushed.arrays, bonded, i + 1, records,
                                      molecules, orders, is_eos)

\* Graph::extend_with_edges: every edge is added, and nodes are added until
\* both of its endpoints exist
RECURSIVE extend_with_edges(_, _)
extend_with_edges(graph, edges) ==
    IF edges = <<>> THEN graph
    ELSE LET e == Head(edges)
             hi == IF e[1] > e[2] THEN e[1] ELSE e[2]
         IN extend_with_edges(
                [nodes |-> IF hi >= graph.nodes THEN hi + 1 ELSE graph.nodes,
                 edges |-> Append(graph.edges, e)],
                Tail(edges))

\* the segment loop of the functional variant over the segment list
RECURSIVE push_listed(_, _, _, _)
push_listed(arrays, i, records, segments) ==
    IF segments = <<>> THEN arrays
    ELSE push_listed(
            push_segment(arrays, i, unwrap(segment_map_get(records, Head(segments))),
                         1, FALSE),
            i, records, Tail(segments))

\* the molecule loop of the functional variant; the bonds of a molecule are
\* shifted by segment_index, the number of entries pushed before it
RECURSIVE listed_molecules(_, _, _, _, _)
listed_molecules(arrays, bonds, i, records, molecules) ==
    IF i >= Len(molecules) THEN [ok |-> TRUE, arrays |-> arrays, bonds |-> bonds]
    ELSE LET chemical_record == molecules[i + 1]
             segment_index == Len(arrays.m)
             shifted == [b \in 1..Len(chemical_record.bonds) |->
                            <<segment_index + chemical_record.bonds[b][1],
                              segment_index + chemical_record.bonds[b][2]>>]
             missing == first_unknown(records, chemical_record.segments)
         IN IF is_some(missing) THEN ComponentsNotFound(unwrap(missing))
            ELSE listed_molecules(
                    push_listed(arrays, i, records, chemical_record.segments),
                    extend_with_edges(bonds, shifted), i + 1, records, molecules)

----------------------------------------------------------------------------
(* Assembly: binary interaction parameters and combining rules. *)

\* mutant of binary_map_inserts: a record is inserted under (id1, id2) only
binary_map_inserts_one_way(binary_records) ==
    [t \in 1..Len(binary_records) |->
        [key |-> <<binary_records[t].id1, binary_records[t].id2>>,
         value |-> binary_records[t].model_record]]

\* the inserts into binary_segment_records_map, in program order: each record
\* is inserted under (id1, id2) and then under (id2, id1)
binary_map_inserts(binary_records) ==
    [t \in 1..(2 * Len(binary_records)) |->
        LET r == binary_records[(t + 1) \div 2]
        IN IF t % 2 = 1
           THEN [key |-> <<r.id1, r.id2>>, value |-> r.model_record]
           ELSE [key |-> <<r.id2, r.id1>>, value |-> r.model_record]]

\* binary_segment_records_map.get(&(id1, id2)): the last insert under the key
binary_map_get(inserts, id1, id2) ==
    LET hits == {t \in 1..Len(inserts) : inserts[t].key = <<id1, id2>>}
    IN IF hits = {} THEN None ELSE Some(inserts[Max(hits)].value)

\* mutant of k_ij_entry: the component_index test is missing
k_ij_entry_any_pair(arrays, binary, i, j) ==
    IF is_some(binary)
       /\ is_some(binary_map_get(binary_map_inserts(unwrap(binary)),
                                 arrays.identifiers[i + 1],
                                 arrays.identifiers[j + 1]))
    THEN unwrap(binary_map_get(binary_map_inserts(unwrap(binary)),
                               arrays.identifiers[i + 1],
                               arrays.identifiers[j + 1]))
    ELSE 0

\* one entry of k_ij after the double loop over the identifiers
k_ij_entry(arrays, binary, i, j) ==
    IF is_some(binary)
       /\ arrays.component_index[i + 1] # arrays.component_index[j + 1]
       /\ is_some(binary_map_get(binary_map_inserts(unwrap(binary)),
                                 arrays.identifiers[i + 1],
                                 arrays.identifiers[j + 1]))
    THEN unwrap(binary_map_get(binary_map_inserts(unwrap(binary)),
                               arrays.identifiers[i + 1],
                               arrays.identifiers[j + 1]))
    ELSE 0

\* the 0-based index range of Array2::from_shape_fn([len; 2], f), as positions
shape(len) == 1..len

\* Array2::zeros, then the binary interaction loop
k_ij_matrix(arrays, binary) ==
    LET f(i, j) == k_ij_entry(arrays, binary, i, j)
    IN [i \in shape(Len(arrays.epsilon_k)) |->
          [j \in shape(Len(arrays.epsilon_k)) |-> f(i - 1, j - 1)]]

\* 0.5 * (sigma[i] + sigma[j])
sigma_ij_matrix(arrays) ==
    LET f(i, j) == (arrays.sigma[i + 1] + arrays.sigma[j + 1]) \div 2
    IN [i \in shape(Len(arrays.sigma)) |->
          [j \in shape(Len(arrays.sigma)) |-> f(i - 1, j - 1)]]

\* mutant of epsilon_k_ij_matrix: the factor (1.0 - k_ij) is missing
epsilon_k_ij_matrix_uncorrected(arrays, k_ij) ==
    LET f(i, j) == sqrt(arrays.epsilon_k[i + 1] * arrays.epsilon_k[j + 1])
    IN [i \in shape(Len(arrays.epsilon_k)) |->
          [j \in shape(Len(arrays.epsilon_k)) |-> f(i - 1, j - 1)]]

\* (epsilon_k[i] * epsilon_k[j]).sqrt() * (1.0 - k_ij[(i, j)]), k_ij in percent
epsilon_k_ij_matrix(arrays, k_ij) ==
    LET f(i, j) == (sqrt(arrays.epsilon_k[i + 1] * arrays.epsilon_k[j + 1])
                    * (100 - k_ij[i + 1][j + 1])) \div 100
    IN [i \in shape(Len(arrays.epsilon_k)) |->
          [j \in shape(Len(arrays.epsilon_k)) |-> f(i - 1, j - 1)]]

\* (sigma[assoc_segment[i]] * sigma[assoc_segment[j]]).powf(1.5)
\*     * (kappa_ab[i] * kappa_ab[j]).sqrt()
sigma3_kappa_aibj_matrix(arrays) ==
    LET root(i, j) == sqrt(arrays.sigma[arrays.assoc_segment[i + 1] + 1]
                           * arrays.sigma[arrays.assoc_segment[j + 1] + 1])
        f(i, j) == root(i, j) * root(i, j) * root(i, j)
                   * sqrt(arrays.kappa_ab[i + 1] * arrays.kappa_ab[j + 1])
    IN [i \in shape(Len(arrays.kappa_ab)) |->
          [j \in shape(Len(arrays.kappa_ab)) |-> f(i - 1, j - 1)]]

\* 0.5 * (epsilon_k_ab[i] + epsilon_k_ab[j])
epsilon_k_aibj_matrix(arrays) ==
    LET f(i, j) == (arrays.epsilon_k_ab[i + 1] + arrays.epsilon_k_ab[j + 1]) \div 2
    IN [i \in shape(Len(arrays.epsilon_k_ab)) |->
          [j \in shape(Len(arrays.epsilon_k_ab)) |-> f(i - 1, j - 1)]]

\* Ok(Self { .. }): the arrays, the matrices and the retained inputs.  k_ij is
\* a field of the EOS variant and a local of the two others; `n` is a field of
\* the EOS variant only (it stays empty in the others)
parameter_set(which, walked, molecules, records, binary) ==
    LET a == walked.arrays
        k_ij == k_ij_matrix(a, binary)
    IN [ ok |-> TRUE, kind |-> which,
         molarweight |-> a.molarweight,
         component_index |-> a.component_index,
         identifiers |-> a.identifiers,
         m |-> a.m, sigma |-> a.sigma, epsilon_k |-> a.epsilon_k,
         bonds |-> walked.bonds,
         assoc_segment |-> a.assoc_segment, n |-> a.n,
         kappa_ab |-> a.kappa_ab, epsilon_k_ab |-> a.epsilon_k_ab,
         na |-> a.na, nb |-> a.nb,
         k_ij |-> k_ij,
         sigma_ij |-> sigma_ij_matrix(a),
         epsilon_k_ij |-> epsilon_k_ij_matrix(a, k_ij),
         sigma3_kappa_aibj |-> sigma3_kappa_aibj_matrix(a),
         epsilon_k_aibj |-> epsilon_k_aibj_matrix(a),
         chemical_records |-> molecules,
         segment_records |-> records,
         binary_segment_records |-> binary ]

\* GcPcSaftEosParameters::from_segments; orders[i] is the order in which the
\* hash map of molecule i hands out its identifiers
eos_from_segments(molecules, records, binary, orders) ==
    LET walked == counted_molecules(new_arrays(Len(molecules)), no_bonds, 0,
                                    records, molecules, orders, TRUE)
    IN IF walked.ok THEN parameter_set("eos", walked, molecules, records, binary)
       ELSE walked

\* GcPcSaftFunctionalParameters::from_segments
dft_from_segments(molecules, records, binary) ==
    LET walked == listed_molecules(new_arrays(Len(molecules)),
                                   [nodes |-> 0, edges |-> <<>>], 0,
                                   records, molecules)
    IN IF walked.ok THEN parameter_set("dft", walked, molecules, records, binary)
       ELSE walked

\* GcPcSaftParameters::from_segments (parameters.rs)
gc_from_segments(molecules, records, binary) ==
    LET orders == [i \in 1..Len(molecules) |-> insertion_order(molecules[i])]
        walked == counted_molecules(new_arrays(Len(molecules)), no_bonds, 0,
                                    records, molecules, orders, FALSE)
    IN IF walked.ok THEN parameter_set("gc", walked, molecules, records, binary)
       ELSE walked

\* the assembler of the given kind
from_segments(which, molecules, records, binary, orders) ==
    CASE which = "eos" -> eos_from_segments(molecules, records, binary, orders)
      [] which = "dft" -> dft_from_segments(molecules, records, binary)
      [] OTHER -> gc_from_segments(molecules, records, binary)

\* every choice of one iteration order per molecule
RECURSIVE order_choices(_)
order_choices(molecules) ==
    IF molecules = <<>> THEN {<<>>}
    ELSE {<<first>> \o rest : first \in hash_orders(Head(molecules)),
                              rest \in order_choices(Tail(molecules))}

\* the orders an assembly of the given kind can run with: only the EOS
\* variant iterates a hash map
run_orders(which, molecules) ==
    IF which = "eos" THEN order_choices(molecules)
    ELSE {[i \in 1..Len(molecules) |-> insertion_order(molecules[i])]}

\* the records subset hands to from_segments:
\* component_list.iter().map(|&i| self.chemical_records[i].clone())
subset_records(p, list) == [k \in 1..Len(list) |-> p.chemical_records[list[k] + 1]]

\* subset(component_list): from_segments on the selected records with the
\* retained segment and binary records, unwrapped
subset(p, list, orders) ==
    from_segments(p.kind, subset_records(p, list), p.segment_records,
                  p.binary_segment_records, orders)

----------------------------------------------------------------------------
(* The facades. *)

\* the temperatures bond_lengths is called with
Temperatures == {200, 300}

\* exp(-y) for y >= 0 in fixed point (y and the result in units of 1/100),
\* by the rational approximation 1 / (1 + y + y^2 / 2)
exp_neg(y) == (100 * 100) \div (100 + y + (y * y) \div (2 * 100))

\* hs_diameter(temperature): d = -(exp(-3 epsilon_k / T) * 0.12 - 1) * sigma
\* per flattened entry, in units of 1/100
hs_diameter(p, temperature) ==
    [i \in 1..Len(p.sigma) |->
        p.sigma[i] * 100
        - (p.sigma[i] * 12 * exp_neg((3 * p.epsilon_k[i] * 100) \div temperature))
              \div 100]

\* mutant of bond_lengths: the weight of an edge is the diameter of its first
\* endpoint
bond_lengths_first_endpoint(p, temperature) ==
    LET d == hs_diameter(p, temperature)
    IN [nodes |-> p.bonds.nodes,
        edges |-> [e \in 1..Len(p.bonds.edges) |->
                      [endpoints |-> p.bonds.edges[e],
                       weight |-> d[p.bonds.edges[e][1] + 1]]]]

\* bond_lengths(temperature): self.parameters.bonds.map(|_, _| (), |e, _| ..),
\* the same node and edge indices with 0.5 * (di + dj) as edge weight
bond_lengths(p, temperature) ==
    LET d == hs_diameter(p, temperature)
    IN [nodes |-> p.bonds.nodes,
        edges |-> [e \in 1..Len(p.bonds.edges) |->
                      [endpoints |-> p.bonds.edges[e],
                       weight |-> (d[p.bonds.edges[e][1] + 1]
                                   + d[p.bonds.edges[e][2] + 1]) \div 2]]]

\* FRAC_PI_6 in units of 1/1000
frac_pi_6 == 524

\* a returned density is in units of 1e-5: max_eta is in percent and FRAC_PI_6
\* in thousandths, so that the quotient of the integers is scaled by
\* density_scale = 10 * 1e5
density_scale == 1000000

\* the mole numbers compute_max_density is called with, one per molecule
MolesChoices(n) == [1..n -> {1, 3}]

\* Array1::sum
RECURSIVE array_sum(_)
array_sum(array) ==
    IF array = <<>> THEN 0 ELSE Head(array) + array_sum(Tail(array))

\* f64::NAN, which is no density
NaN == -1

\* f64 division of non-negative numbers; 0.0 / 0.0 is NaN
f64_div(numerator, denominator) ==
    IF denominator = 0 THEN NaN ELSE numerator \div denominator

\* mutant of moles_segments: every entry takes the mole number of the first
\* molecule
moles_segments_first(p, moles) ==
    [i \in 1..Len(p.component_index) |-> moles[1]]

\* p.component_index.iter().map(|&i| moles[i]).collect()
moles_segments(p, moles) ==
    [i \in 1..Len(p.component_index) |-> moles[p.component_index[i] + 1]]

\* compute_max_density(moles): max_eta * moles.sum()
\*     / (FRAC_PI_6 * m * sigma^3 * moles_segments).sum()
compute_max_density(p, options, moles) ==
    f64_div(options.max_eta * array_sum(moles) * density_scale,
            array_sum([i \in 1..Len(p.m) |->
                          frac_pi_6 * p.m[i] * p.sigma[i] * p.sigma[i] * p.sigma[i]
                              * moles_segments(p, moles)[i]]))

\* GcPcSaftOptions::default(): max_eta in percent, tol_cross_assoc in units
\* of 1e-10
default_options ==
    [max_eta |-> 50, max_iter_cross_assoc |-> 50, tol_cross_assoc |-> 1]

\* the options a facade is built with
OptionChoices ==
    {default_options,
     [max_eta |-> 40, max_iter_cross_assoc |-> 1, tol_cross_assoc |-> 100]}

Contribution(role, name) == [role |-> role, name |-> name]

\* the three contributions both facades push first
eos_fixed_contributions ==
    << Contribution("hard-sphere", "HardSphere"),
       Contribution("hard-chain", "HardChain"),
       Contribution("dispersion", "Dispersion") >>

dft_fixed_contributions ==
    << Contribution("hard-sphere", "FMTContribution"),
       Contribution("hard-chain", "ChainFunctional"),
       Contribution("dispersion", "AttractiveFunctional") >>

\* mutant of eos_association: two entries still take the closed form
eos_association_upto_two(p, options) ==
    CASE Len(p.assoc_segment) = 0 -> <<>>
      [] Len(p.assoc_segment) \in {1, 2} ->
            << Contribution("association", "Association") >>
      [] OTHER ->
            << [role |-> "association", name |-> "CrossAssociation",
                max_iter |-> options.max_iter_cross_assoc,
                tol |-> options.tol_cross_assoc] >>

\* match parameters.assoc_segment.len() { 0 => (), 1 => Association, _ => CrossAssociation }
eos_association(p, options) ==
    CASE Len(p.assoc_segment) = 0 -> <<>>
      [] Len(p.assoc_segment) = 1 ->
            << Contribution("association", "Association") >>
      [] OTHER ->
            << [role |-> "association", name |-> "CrossAssociation",
                max_iter |-> options.max_iter_cross_assoc,
                tol |-> options.tol_cross_assoc] >>

\* mutant of dft_association: the contribution is pushed unconditionally
dft_association_always(p, options) ==
    << [role |-> "association", name |-> "AssociationFunctional",
        max_iter |-> options.max_iter_cross_assoc,
        tol |-> options.tol_cross_assoc] >>

\* if !parameters.assoc_segment.is_empty() { AssociationFunctional::new(..) }
dft_association(p, options) ==
    IF p.assoc_segment # <<>>
    THEN << [role |-> "association", name |-> "AssociationFunctional",
             max_iter |-> options.max_iter_cross_assoc,
             tol |-> options.tol_cross_assoc] >>
    ELSE <<>>

\* array[i] of an Array1 for a 0-based i: the entry, or the panic of an index
\* out of bounds
index_or_panic(array, i) ==
    IF i < Len(array) THEN Some(array[i + 1]) ELSE None

\* iter().position(|&a| a == i): the 0-based position of i in the array
position(array, i) ==
    LET hits == {k \in 1..Len(array) : array[k] = i}
    IN IF hits = {} THEN None ELSE Some(Min(hits) - 1)

\* one row of the segment table of to_markdown for the flattened index i.  No
\* segment record of the model has a dipole moment, so the dipole cell is
\* empty
segment_row(p, i) ==
    [ component |->
          IF i > 0 /\ p.component_index[i + 1] = p.component_index[i]
          THEN <<>>
          ELSE << p.chemical_records[p.component_index[i + 1] + 1].name,
                  p.molarweight[p.component_index[i + 1] + 1], "" >>,
      segment |-> p.identifiers[i + 1],
      count |-> index_or_panic(p.n, i),
      m |-> p.m[i + 1],
      sigma |-> p.sigma[i + 1],
      epsilon_k |-> p.epsilon_k[i + 1],
      association |->
          LET a == position(p.assoc_segment, i)
          IN IF is_some(a)
             THEN << p.kappa_ab[unwrap(a) + 1], p.epsilon_k_ab[unwrap(a) + 1],
                     p.na[unwrap(a) + 1], p.nb[unwrap(a) + 1] >>
             ELSE <<>> ]

\* the rows of the bond table of to_markdown; the blanking of a repeated
\* component name follows the order of the rows and is left out
bond_rows(p) ==
    { [ component |-> p.chemical_records[p.component_index[key[1] + 1] + 1].name,
        segment1 |-> p.identifiers[key[1] + 1],
        segment2 |-> p.identifiers[key[2] + 1],
        bonds |-> p.bonds[key] ] : key \in DOMAIN p.bonds }

\* GcPcSaftEosParameters::to_markdown: the two tables, or the panic of the
\* first row of the segment table that indexes an array out of bounds
to_markdown(p) ==
    LET rows == [i \in 1..Len(p.m) |-> segment_row(p, i - 1)]
        panics == {i \in 1..Len(p.m) : rows[i].count = None}
    IN IF panics # {}
       THEN [ ok |-> FALSE, panic |-> "index out of bounds",
              index |-> Min(panics) - 1, len |-> Len(p.n) ]
       ELSE [ ok |-> TRUE, segments |-> rows, bonds |-> bond_rows(p) ]

\* GcPcSaft::with_options and GcPcSaftFunctional::with_options
with_options(p, options) ==
    [ options |-> options,
      contributions |->
          IF p.kind = "dft"
          THEN dft_fixed_contributions \o dft_association(p, options)
          ELSE eos_fixed_contributions \o eos_association(p, options) ]

----------------------------------------------------------------------------
(* Specification of assembly, subset and facade construction. *)

\* all sequences over S of length 0..n
RECURSIVE SeqUpTo(_, _)
SeqUpTo(S, n) ==
    IF n = 0 THEN {<<>>}
    ELSE LET shorter == SeqUpTo(S, n - 1)
         IN shorter \cup {Append(q, x) : q \in {r \in shorter : Len(r) = n - 1}, x \in S}

\* the component lists subset is called with: one position, or two distinct
\* positions in either order
SubsetLists(n) ==
    {<<i>> : i \in 0..(n - 1)}
    \cup {p \in (0..(n - 1)) \X (0..(n - 1)) : p[1] # p[2]}

Kinds == {"eos", "dft", "gc"}

not_assembled == [ok |-> FALSE, error |-> "not assembled"]

solver_idle == [pc |-> "idle"]

loader_idle == [pc |-> "idle"]

Init ==
    /\ kind \in Kinds
    /\ chemical_records \in SeqUpTo(Catalogue, MaxMol)
    /\ binary_segment_records \in BinaryChoices
    /\ phase = "input"
    /\ params = not_assembled
    /\ component_list = <<>>
    /\ sub = None
    /\ facade = None
    /\ solver = solver_idle
    /\ loader = loader_idle
    /\ returned = None

\* from_segments(chemical_records, segment_records, binary_segment_records)
Assemble ==
    /\ phase = "input"
    /\ \E orders \in run_orders(kind, chemical_records) :
          params' = from_segments(kind, chemical_records, segment_records,
                                  binary_segment_records, orders)
    /\ phase' = IF params'.ok THEN "assembled" ELSE "failed"
    /\ UNCHANGED <<kind, chemical_records, binary_segment_records,
                   component_list, sub, facade, solver, loader, returned>>

\* params.subset(&list) for a list of valid positions
Subset ==
    /\ phase = "assembled"
    /\ \E list \in SubsetLists(Len(params.chemical_records)) :
          \E orders \in run_orders(kind, subset_records(params, list)) :
             /\ component_list' = list
             /\ sub' = Some(subset(params, list, orders))
    /\ phase' = "subset"
    /\ UNCHANGED <<kind, chemical_records, binary_segment_records,
                   params, facade, solver, loader, returned>>

\* with_options(Rc::new(params), options)
WithOptions ==
    /\ phase = "assembled"
    /\ \E options \in OptionChoices :
          facade' = Some(with_options(params, options))
    /\ phase' = "facade"
    /\ UNCHANGED <<kind, chemical_records, binary_segment_records,
                   params, component_list, sub, solver, loader, returned>>

\* functional.bond_lengths(temperature) on the facade of the functional variant
BondLengths ==
    /\ phase = "facade"
    /\ kind = "dft"
    /\ returned = None
    /\ \E temperature \in Temperatures :
          returned' = Some([query |-> "bond_lengths",
                            temperature |-> temperature,
                            graph |-> bond_lengths(params, temperature)])
    /\ UNCHANGED <<kind, chemical_records, binary_segment_records, phase,
                   params, component_list, sub, facade, solver, loader>>

\* compute_max_density(&moles) on either facade
ComputeMaxDensity ==
    /\ phase = "facade"
    /\ kind \in {"eos", "dft"}
    /\ returned = None
    /\ \E moles \in MolesChoices(Len(params.chemical_records)) :
          returned' = Some([query |-> "compute_max_density",
                            moles |-> moles,
                            density |-> compute_max_density(
                                            params, unwrap(facade).options, moles)])
    /\ UNCHANGED <<kind, chemical_records, binary_segment_records, phase,
                   params, component_list, sub, facade, solver, loader>>

\* params.to_markdown() on a parameter set of the EOS variant
ToMarkdown ==
    /\ phase = "assembled"
    /\ kind = "eos"
    /\ returned = None
    /\ returned' = Some([query |-> "to_markdown", result |-> to_markdown(params)])
    /\ phase' = "printed"
    /\ UNCHANGED <<kind, chemical_records, binary_segment_records,
                   params, component_list, sub, facade, solver, loader>>

Next ==
    \/ Assemble \/ Subset \/ WithOptions \/ BondLengths \/ ComputeMaxDensity
    \/ ToMarkdown

Spec == Init /\ [][Next]_vars

----------------------------------------------------------------------------
(* The cross-association solver for one association entry (nassoc = 1, the  *)
(* system of test_cross_assoc_propanol): x = <<xa, xb>>.  Real numbers are  *)
(* fixed-point integers in units of 1/one; deltarho is the real part of     *)
(* delta[(0, 0)] * rho[0].  A step on dual numbers acts on the real parts   *)
(* exactly as the step on reals does, so x holds the real parts throughout. *)

\* largest iteration cap tried
MaxIter == 4

\* the number of evaluations made one after the other with one contribution
MaxCalls == 3

\* the number 1.0 in fixed point
one == 100

\* D::NDERIV of the numeric types the energy is evaluated with
NDerivChoices == {0, 1, 2}

\* x.recip()
recip(x) == (one * one) \div x

\* g.map(D::re).norm() < tol
norm_below(g, tol) == g[1] * g[1] + g[2] * g[2] < tol * tol

\* mutant of newton_step_cross_association: the diagonal of the matrix is the
\* exact derivative of the gradient
newton_step_exact_jacobian(x, deltarho, na, nb, tol) ==
    LET xa == x[1]
        xb == x[2]
        dnx_a == (xb * nb * deltarho) \div one + one
        ga == recip(xa) - dnx_a
        hab == -(deltarho * nb)
        haa == (-(one * one * one)) \div (xa * xa)
        dnx_b == (xa * na * deltarho) \div one + one
        gb == recip(xb) - dnx_b
        hba == -(deltarho * na)
        hbb == (-(one * one * one)) \div (xb * xb)
        det == haa * hbb - hab * hba
        step_a == ((hbb * ga - hab * gb) * one) \div det
        step_b == ((haa * gb - hba * ga) * one) \div det
    IN [ x |-> <<xa - step_a, xb - step_b>>,
         g |-> <<ga, gb>>,
         h |-> << <<haa, hab>>, <<hba, hbb>> >>,
         converged |-> norm_below(<<ga, gb>>, tol) ]

\* mutant of newton_step_cross_association: the flag is computed from the
\* gradient at the updated site fractions
newton_step_flag_after_update(x, deltarho, na, nb, tol) ==
    LET xa == x[1]
        xb == x[2]
        dnx_a == (xb * nb * deltarho) \div one + one
        ga == recip(xa) - dnx_a
        hab == -(deltarho * nb)
        haa == (-(dnx_a * one)) \div xa
        dnx_b == (xa * na * deltarho) \div one + one
        gb == recip(xb) - dnx_b
        hba == -(deltarho * na)
        hbb == (-(dnx_b * one)) \div xb
        det == haa * hbb - hab * hba
        step_a == ((hbb * ga - hab * gb) * one) \div det
        step_b == ((haa * gb - hba * ga) * one) \div det
        ya == xa - step_a
        yb == xb - step_b
        after == << recip(ya) - ((yb * nb * deltarho) \div one + one),
                    recip(yb) - ((ya * na * deltarho) \div one + one) >>
    IN [ x |-> <<ya, yb>>,
         g |-> <<ga, gb>>,
         h |-> << <<haa, hab>>, <<hba, hbb>> >>,
         converged |-> norm_below(after, tol) ]

\* newton_step_cross_association: the gradient and the matrix at x, the
\* update x <- x - h^-1 g, and the flag computed from the gradient
newton_step_cross_association(x, deltarho, na, nb, tol) ==
    LET xa == x[1]
        xb == x[2]
        dnx_a == (xb * nb * deltarho) \div one + one
        ga == recip(xa) - dnx_a
        hab == -(deltarho * nb)
        haa == (-(dnx_a * one)) \div xa
        dnx_b == (xa * na * deltarho) \div one + one
        gb == recip(xb) - dnx_b
        hba == -(deltarho * na)
        hbb == (-(dnx_b * one)) \div xb
        det == haa * hbb - hab * hba
        step_a == ((hbb * ga - hab * gb) * one) \div det
        step_b == ((haa * gb - hba * ga) * one) \div det
    IN [ x |-> <<xa - step_a, xb - step_b>>,
         g |-> <<ga, gb>>,
         h |-> << <<haa, hab>>, <<hba, hbb>> >>,
         converged |-> norm_below(<<ga, gb>>, tol) ]

\* Array::from_elem(2 * nassoc, 0.2)
initial_site_fractions == <<one \div 5, one \div 5>>

\* mutant of re: the derivative part leaks into the real part
re_minus_eps(d) == d.re - d.eps

\* D::re
re(d) == d.re

\* delta[(0, 0)] * rho[0] of the state the energy is evaluated at, a number of
\* type D with the real part in.deltarho and the derivative part in.eps
delta_rho(in) == [re |-> in.deltarho, eps |-> in.eps]

\* the inputs of one evaluation: the CrossAssociation object (max_iter, tol),
\* the numeric type (nderiv) and the state (deltarho and its derivative part
\* eps, with na and nb)
SolverInputs ==
    [ max_iter : 0..MaxIter, tol : {0, 10, 1000}, nderiv : NDerivChoices,
      deltarho : {5, 50, 100}, eps : {0, one}, na : {1, 2}, nb : {1, 2} ]

\* the state before helmholtz_energy is called
solver_start(in) ==
    [ pc |-> "called", in |-> in, x |-> <<>>, k |-> 0, steps |-> 0,
      reported |-> FALSE, x_dual |-> <<>>, dual_steps |-> 0,
      flags |-> <<>>, energy_from |-> None, error |-> None,
      calls |-> 1, seen |-> {} ]

InitCross ==
    /\ kind = "eos"
    /\ chemical_records = <<>>
    /\ binary_segment_records = None
    /\ phase = "solver"
    /\ params = not_assembled
    /\ component_list = <<>>
    /\ sub = None
    /\ facade = None
    /\ \E in \in SolverInputs : solver = solver_start(in)
    /\ loader = loader_idle
    /\ returned = None

\* mutant of EnterEnergy: the site fractions left by the previous evaluation
\* are the starting point
EnterEnergy_warm_start ==
    /\ solver.pc = "called"
    /\ solver' = [solver EXCEPT
                    !.pc = "loop",
                    !.x = IF solver.x = <<>> THEN initial_site_fractions ELSE @]
    /\ UNCHANGED asm_vars

\* let mut x = Array::from_elem(2 * nassoc, 0.2);
EnterEnergy ==
    /\ solver.pc = "called"
    /\ solver' = [solver EXCEPT !.pc = "loop", !.x = initial_site_fractions]
    /\ UNCHANGED asm_vars

\* mutant of NewtonIteration: the cap is tested before the flag, so that a step
\* converging in the last permitted pass fails
NewtonIteration_cap_first ==
    /\ solver.pc = "loop"
    /\ solver.k < solver.in.max_iter
    /\ LET r == newton_step_cross_association(solver.x, re(delta_rho(solver.in)),
                    solver.in.na, solver.in.nb, solver.in.tol)
           last == solver.k = solver.in.max_iter - 1
       IN solver' =
            [solver EXCEPT
                !.x = r.x,
                !.x_dual = IF r.converged /\ ~last THEN r.x ELSE @,
                !.steps = @ + 1,
                !.reported = r.converged,
                !.k = IF r.converged \/ last THEN @ ELSE @ + 1,
                !.pc = IF last THEN "failed"
                       ELSE IF r.converged THEN "derivatives"
                       ELSE "loop",
                !.error = IF last
                          THEN Some([kind |-> "NotConverged",
                                     message |-> "Cross association"])
                          ELSE @]
    /\ UNCHANGED asm_vars

\* one pass of `for k in 0..self.max_iter`: the step, `break` when it reports
\* convergence, the NotConverged panic when k == max_iter - 1
NewtonIteration ==
    /\ solver.pc = "loop"
    /\ solver.k < solver.in.max_iter
    /\ LET r == newton_step_cross_association(solver.x, re(delta_rho(solver.in)),
                    solver.in.na, solver.in.nb, solver.in.tol)
       IN solver' =
            [solver EXCEPT
                !.x = r.x,
                !.x_dual = IF r.converged THEN r.x ELSE @,
                !.steps = @ + 1,
                !.reported = r.converged,
                !.k = IF r.converged \/ solver.k = solver.in.max_iter - 1
                      THEN @ ELSE @ + 1,
                !.pc = IF r.converged THEN "derivatives"
                       ELSE IF solver.k = solver.in.max_iter - 1 THEN "failed"
                       ELSE "loop",
                !.error = IF ~r.converged /\ solver.k = solver.in.max_iter - 1
                          THEN Some([kind |-> "NotConverged",
                                     message |-> "Cross association"])
                          ELSE @]
    /\ UNCHANGED asm_vars

\* the range 0..self.max_iter is exhausted without break or panic
LoopExhausted ==
    /\ solver.pc = "loop"
    /\ solver.k >= solver.in.max_iter
    /\ solver' = [solver EXCEPT !.pc = "derivatives", !.x_dual = solver.x]
    /\ UNCHANGED asm_vars

\* one pass of `for _ in 0..D::NDERIV`: the step on x_dual; its flag is
\* dropped by the code and kept here in `flags` for inspection only
DerivativeStep ==
    /\ solver.pc = "derivatives"
    /\ solver.dual_steps < solver.in.nderiv
    /\ LET r == newton_step_cross_association(solver.x_dual,
                    re(delta_rho(solver.in)),
                    solver.in.na, solver.in.nb, solver.in.tol)
       IN solver' = [solver EXCEPT
                       !.x_dual = r.x,
                       !.flags = Append(@, r.converged),
                       !.dual_steps = @ + 1]
    /\ UNCHANGED asm_vars

\* mutant of ReturnEnergy: the energy is computed from x_dual without waiting
\* for the derivative steps
ReturnEnergy_early ==
    /\ solver.pc = "derivatives"
    /\ solver' = [solver EXCEPT !.pc = "done",
                                !.energy_from = Some(solver.x_dual)]
    /\ UNCHANGED asm_vars

\* the Helmholtz energy density, a function of the site fractions in x_dual
ReturnEnergy ==
    /\ solver.pc = "derivatives"
    /\ solver.dual_steps >= solver.in.nderiv
    /\ solver' = [solver EXCEPT !.pc = "done",
                                !.energy_from = Some(solver.x_dual)]
    /\ UNCHANGED asm_vars

\* what the caller of a finished evaluation gets: the site fractions the
\* energy is a function of, or the error
outcome(s) ==
    [ ok |-> s.pc = "done",
      x |-> IF s.pc = "done" THEN unwrap(s.energy_from) ELSE <<>>,
      error |-> IF s.pc = "done" THEN "" ELSE unwrap(s.error).kind ]

\* the next evaluation with the same contribution (same parameters, cap and
\* tolerance, same numeric type) at another or the same state; the locals of
\* the finished call are dead, and x is left as it was in memory
CallAgain ==
    /\ solver.pc \in {"done", "failed"}
    /\ solver.calls < MaxCalls
    /\ \E in \in SolverInputs :
          /\ in.max_iter = solver.in.max_iter /\ in.tol = solver.in.tol
          /\ in.na = solver.in.na /\ in.nb = solver.in.nb
          /\ in.nderiv = solver.in.nderiv
          /\ solver' = [solver_start(in) EXCEPT
                          !.x = solver.x,
                          !.calls = solver.calls + 1,
                          !.seen = solver.seen \cup
                                     {[in |-> solver.in, outcome |-> outcome(solver)]}]
    /\ UNCHANGED asm_vars

NextCross ==
    \/ EnterEnergy \/ NewtonIteration \/ LoopExhausted
    \/ DerivativeStep \/ ReturnEnergy \/ CallAgain

SpecCross == InitCross /\ [][NextCross]_vars

\* the evaluation runs on: a statement that can be executed is executed
SpecCrossLive == SpecCross /\ WF_vars(NextCross)

----------------------------------------------------------------------------
(* from_json_segments: the molecules are looked up by name in a catalogue    *)
(* file, then the segment file and the optional binary file are read and     *)
(* from_segments is called.                                                  *)

\* the longest list of queried names
MaxQuery == 3

\* the names a call may query
QueryNames == {"propane", "methanol", "water", "argon"}

\* the content of file_pure: each record with its identifier under the search
\* option (None: the record has no identifier of that kind).  "methanol" is
\* listed twice
file_pure ==
    << [identifier |-> Some("propane"),
        record |-> ChemicalRecord("propane", <<"CH3", "CH2", "CH3">>,
                                  chain_bonds(<<"CH3", "CH2", "CH3">>))],
       [identifier |-> Some("methanol"),
        record |-> ChemicalRecord("methanol", <<"CH3", "OH">>,
                                  chain_bonds(<<"CH3", "OH">>))],
       [identifier |-> None,
        record |-> ChemicalRecord("water", <<"OH">>, <<>>)],
       [identifier |-> Some("methanol"),
        record |-> ChemicalRecord("methanol", <<"OH", "CH3">>,
                                  chain_bonds(<<"OH", "CH3">>))] >>

\* the binary file argument: None, an unreadable file, or a readable one
BinaryFiles ==
    { None, Some([readable |-> FALSE, records |-> <<>>]) }
    \cup { Some([readable |-> TRUE, records |-> unwrap(b)]) :
               b \in BinaryChoices \ {None} }

\* mutant of queried_set: a repeated name is kept
queried_set_keeps_repeats(substances) == substances

\* substances.iter().map(..).collect::<IndexSet<String>>()
queried_set(substances) == first_appearance(substances)

\* IndexMap::insert: a key already present keeps its position and takes the
\* new value
index_map_insert(map, key, value) ==
    IF \E k \in 1..Len(map) : map[k].key = key
    THEN [k \in 1..Len(map) |->
             IF map[k].key = key THEN [key |-> key, value |-> value] ELSE map[k]]
    ELSE Append(map, [key |-> key, value |-> value])

\* chemical_records.into_iter().filter_map(..).collect::<IndexMap<_, _>>()
RECURSIVE record_map_collect(_)
record_map_collect(records) ==
    IF records = <<>> THEN <<>>
    ELSE LET init == record_map_collect(SubSeq(records, 1, Len(records) - 1))
             last == records[Len(records)]
         IN IF is_some(last.identifier)
            THEN index_map_insert(init, unwrap(last.identifier), last.record)
            ELSE init

\* record_map.keys().map(..).collect::<IndexSet<String>>()
available_set(record_map) == {record_map[k].key : k \in 1..Len(record_map)}

\* mutant of difference: only the first unmatched name is reported
difference_first_only(queried, available) ==
    LET unmatched(name) == name \notin available
        all == SelectSeq(queried, unmatched)
    IN IF all = <<>> THEN <<>> ELSE << all[1] >>

\* queried.difference(&available).cloned().collect::<Vec<String>>()
difference(queried, available) ==
    LET unmatched(name) == name \notin available
    IN SelectSeq(queried, unmatched)

\* the elements of format!("{:?}", missing) between the brackets
RECURSIVE debug_list(_)
debug_list(names) ==
    IF names = <<>> THEN ""
    ELSE IF Len(names) = 1 THEN "\"" \o names[1] \o "\""
    ELSE "\"" \o names[1] \o "\", " \o debug_list(Tail(names))

\* format!("{:?}", missing) of a Vec<String>: ["a", "b"]
debug_format(names) == "[" \o debug_list(names) \o "]"

\* record_map.get(key) of the collected map
record_map_get(record_map, key) ==
    LET hits == {k \in 1..Len(record_map) : record_map[k].key = key}
    IN IF hits = {} THEN None ELSE Some(record_map[CHOOSE k \in hits : TRUE].value)

\* queried.iter().filter_map(|identifier| record_map.remove(identifier)).collect()
collect_queried(queried, record_map) ==
    LET found(name) == is_some(record_map_get(record_map, name))
        names == SelectSeq(queried, found)
    IN [k \in 1..Len(names) |-> unwrap(record_map_get(record_map, names[k]))]

\* an error of from_json_segments
LoadError(error, message) == [ok |-> FALSE, error |-> error, id |-> message]

LoaderInputs ==
    [substances : SeqUpTo(QueryNames, MaxQuery),
     segments_readable : BOOLEAN,
     file_binary : BinaryFiles]

loader_start(in) ==
    [pc |-> "called", substances |-> in.substances,
     segments_readable |-> in.segments_readable,
     file_binary |-> in.file_binary,
     opened |-> <<>>, queried |-> <<>>, record_map |-> <<>>]

InitJson ==
    /\ kind \in Kinds
    /\ chemical_records = <<>>
    /\ binary_segment_records = None
    /\ phase = "loader"
    /\ params = not_assembled
    /\ component_list = <<>>
    /\ sub = None
    /\ facade = None
    /\ solver = solver_idle
    /\ \E in \in LoaderInputs : loader = loader_start(in)
    /\ returned = None

\* the queried set, File::open(file_pure) and the record map
ReadPure ==
    /\ loader.pc = "called"
    /\ loader' = [loader EXCEPT
                    !.pc = "compare",
                    !.opened = Append(@, "file_pure"),
                    !.queried = queried_set(loader.substances),
                    !.record_map = record_map_collect(file_pure)]
    /\ UNCHANGED <<kind, chemical_records, binary_segment_records, phase, params,
                   component_list, sub, facade, solver, returned>>

\* if !queried.is_subset(&available) { return Err(ComponentsNotFound(..)) },
\* otherwise the queried records are collected
CompareQueried ==
    /\ loader.pc = "compare"
    /\ LET available == available_set(loader.record_map)
           missing == difference(loader.queried, available)
       IN IF ~(Range(loader.queried) \subseteq available)
          THEN /\ loader' = [loader EXCEPT !.pc = "failed"]
               /\ params' = LoadError("ComponentsNotFound", debug_format(missing))
               /\ UNCHANGED chemical_records
          ELSE /\ loader' = [loader EXCEPT !.pc = "collected"]
               /\ chemical_records' = collect_queried(loader.queried,
                                                      loader.record_map)
               /\ UNCHANGED params
    /\ UNCHANGED <<kind, binary_segment_records, phase,
                   component_list, sub, facade, solver, returned>>

\* File::open(file_segments)?
ReadSegments ==
    /\ loader.pc = "collected"
    /\ IF loader.segments_readable
       THEN /\ loader' = [loader EXCEPT !.pc = "segments",
                                        !.opened = Append(@, "file_segments")]
            /\ UNCHANGED params
       ELSE /\ loader' = [loader EXCEPT !.pc = "failed",
                                        !.opened = Append(@, "file_segments")]
            /\ params' = LoadError("FileIO", "file_segments")
    /\ UNCHANGED <<kind, chemical_records, binary_segment_records, phase,
                   component_list, sub, facade, solver, returned>>

\* file_binary.map(|file_binary| ..).transpose()?
ReadBinary ==
    /\ loader.pc = "segments"
    /\ IF loader.file_binary = None
       THEN /\ loader' = [loader EXCEPT !.pc = "ready"]
            /\ UNCHANGED <<params, binary_segment_records>>
       ELSE IF unwrap(loader.file_binary).readable
       THEN /\ loader' = [loader EXCEPT !.pc = "ready",
                                        !.opened = Append(@, "file_binary")]
            /\ binary_segment_records' = Some(unwrap(loader.file_binary).records)
            /\ UNCHANGED params
       ELSE /\ loader' = [loader EXCEPT !.pc = "failed",
                                        !.opened = Append(@, "file_binary")]
            /\ params' = LoadError("FileIO", "file_binary")
            /\ UNCHANGED binary_segment_records
    /\ UNCHANGED <<kind, chemical_records, phase,
                   component_list, sub, facade, solver, returned>>

\* Self::from_segments(chemical_records, segment_records, binary_records)
CallFromSegments ==
    /\ loader.pc = "ready"
    /\ \E orders \in run_orders(kind, chemical_records) :
          params' = from_segments(kind, chemical_records, segment_records,
                                  binary_segment_records, orders)
    /\ loader' = [loader EXCEPT !.pc = "returned"]
    /\ UNCHANGED <<kind, chemical_records, binary_segment_records, phase,
                   component_list, sub, facade, solver, returned>>

NextJson ==
    ReadPure \/ CompareQueried \/ ReadSegments \/ ReadBinary \/ CallFromSegments

SpecJson == InitJson /\ [][NextJson]_vars

-----------------------------------------------------------------------------
(* The closed-form Association contribution for one association entry.      *)
(* A dual number is a record of its real part and its first derivative      *)
(* part, both fixed-point integers in units of 1/unit.  The number format   *)
(* of the model has machine epsilon 1/unit, so that the switching threshold *)
(* f64::EPSILON.sqrt() is sqrt_epsilon/unit with sqrt_epsilon^2 = unit.     *)
(* Every operation rounds towards minus infinity.                           *)

\* the bound of the association strengths that are evaluated
MaxDeltaRho == 128

\* 1 / f64::EPSILON of the model's number format
unit == 4096

\* f64::EPSILON.sqrt() in units of 1/unit
sqrt_epsilon == 64

RECURSIVE bisect_sqrt(_, _, _)
bisect_sqrt(v, lo, hi) ==
    IF hi - lo <= 1 THEN lo
    ELSE LET mid == (lo + hi) \div 2 IN
         IF mid * mid <= v THEN bisect_sqrt(v, mid, hi)
                           ELSE bisect_sqrt(v, lo, mid)

\* the largest r with r * r <= v, for 0 <= v < 2^30
int_sqrt(v) == bisect_sqrt(v, 0, 32768)

dual(real, deriv) == [re |-> real, eps |-> deriv]

\* D + D and D - D
dual_add(a, b) == dual(a.re + b.re, a.eps + b.eps)

dual_sub(a, b) == dual(a.re - b.re, a.eps - b.eps)

\* D * f64 and D + f64, for an f64 that holds the integer k
dual_scale(a, k) == dual(a.re * k, a.eps * k)

dual_offset(a, k) == dual(a.re + k * unit, a.eps)

\* D * D
dual_mul(a, b) ==
    dual((a.re * b.re) \div unit,
         (a.re * b.eps) \div unit + (a.eps * b.re) \div unit)

\* D / D
dual_div(a, b) ==
    LET quotient == (a.re * unit) \div b.re
    IN  dual(quotient,
             ((a.eps - (quotient * b.eps) \div unit) * unit) \div b.re)

\* D.powi(2)
dual_powi2(a) == dual_mul(a, a)

\* D.sqrt()
dual_sqrt(a) ==
    LET root == int_sqrt(a.re * unit)
    IN  dual(root, (a.eps * unit) \div (2 * root))

\* D::one()
dual_one == dual(unit, 0)

\* deltarho.re() > f64::EPSILON.sqrt()
closed_form(deltarho) == re(deltarho) > sqrt_epsilon

assoc_site_frac_ab(deltarho, na, nb) ==
    IF closed_form(deltarho)
    THEN dual_div(
             dual_sub(
                 dual_sqrt(dual_add(
                     dual_powi2(dual_offset(dual_scale(deltarho, na - nb), 1)),
                     dual_scale(dual_scale(deltarho, nb), 4))),
                 dual_offset(dual_scale(deltarho, nb - na), 1)),
             dual_scale(dual_scale(deltarho, na), 2))
    ELSE dual_add(dual_one,
                  dual_mul(dual_scale(deltarho, nb),
                           dual_offset(dual_scale(deltarho, nb + na), -1)))

assoc_site_frac_a(deltarho, na) ==
    IF closed_form(deltarho)
    THEN dual_div(
             dual_sqrt(dual_offset(
                 dual_powi2(dual_offset(dual_scale(dual_scale(deltarho, na), 4), 1)),
                 -1)),
             dual_scale(dual_scale(deltarho, na), 2))
    ELSE dual_add(dual_one,
                  dual_mul(dual_scale(deltarho, na),
                           dual_offset(dual_scale(dual_scale(deltarho, na), 2), -1)))

\* The inputs of one evaluation: the real part of deltarho, its derivative
\* part eps (one when the derivative is taken with respect to deltarho, zero
\* when deltarho does not depend on the variable), and the site counts
\* p.na[0], p.nb[0] of the association entry.
AssociationInputs ==
    [deltarho : 1..MaxDeltaRho, eps : {0, unit}, na : {1, 2}, nb : {0, 1, 2}]

association_start(in) ==
    [ pc |-> "association", in |-> in, branch |-> None,
      xa |-> None, xb |-> None ]

\* the site fractions the energy is computed from
site_fractions(in) ==
    LET deltarho == delta_rho(in) IN
    IF in.nb > 0
    THEN LET xa == assoc_site_frac_ab(deltarho, in.na, in.nb) IN
         [ xa |-> Some(xa),
           xb |-> Some(dual_offset(
                           dual_mul(dual_offset(xa, -1),
                                    dual((in.na * unit) \div in.nb, 0)),
                           1)) ]
    ELSE [ xa |-> Some(assoc_site_frac_a(deltarho, in.na)), xb |-> None ]

InitAssociation ==
    /\ kind = "eos"
    /\ chemical_records = <<>>
    /\ binary_segment_records = None
    /\ phase = "solver"
    /\ params = not_assembled
    /\ component_list = <<>>
    /\ sub = None
    /\ facade = None
    /\ \E in \in AssociationInputs : solver = association_start(in)
    /\ loader = loader_idle
    /\ returned = None

\* Association::helmholtz_energy
AssociationEnergy ==
    /\ solver.pc = "association"
    /\ solver' = [solver EXCEPT
                    !.pc = "association_done",
                    !.branch = Some(IF closed_form(delta_rho(solver.in))
                                    THEN "closed" ELSE "series"),
                    !.xa = site_fractions(solver.in).xa,
                    !.xb = site_fractions(solver.in).xb]
    /\ UNCHANGED asm_vars

NextAssociation == AssociationEnergy

SpecAssociation == InitAssociation /\ [][NextAssociation]_vars

\* an energy evaluation of either association contribution
InitEnergy == InitCross \/ InitAssociation

NextEnergy == NextCross \/ NextAssociation

SpecEnergy == InitEnergy /\ [][NextEnergy]_vars

----------------------------------------------------------------------------
(* Properties. *)

\* the parameter sets that exist in the current state
Assembled ==
    (IF phase \in {"assembled", "subset", "facade"} THEN {params} ELSE {})
    \cup (IF sub # None THEN {unwrap(sub)} ELSE {})

\* the 1-based positions of the flattened entries of a parameter set
Entries(p) == 1..Len(p.component_index)

\* a square matrix equals its transpose
Symmetric(matrix) ==
    \A i, j \in 1..Len(matrix) : matrix[i][j] = matrix[j][i]

\* a matrix has len rows of len entries
Square(matrix, len) ==
    Len(matrix) = len /\ \A i \in 1..Len(matrix) : Len(matrix[i]) = len

\* the association entries of a contribution list
AssociationOf(list) ==
    LET is_association(c) == c.role = "association"
    IN SelectSeq(list, is_association)

\* the roles of a contribution list, in order
Roles(list) == [k \in 1..Len(list) |-> list[k].role]

\* the molecule of the A-B-A scenario: A = CH3, B = CH2
propane ==
    ChemicalRecord("propane", <<"CH3", "CH2", "CH3">>,
                   chain_bonds(<<"CH3", "CH2", "CH3">>))

\* a field of the segment record of an identifier
record_of(id) == unwrap(segment_map_get(segment_records, id))

\* C1: whenever the value-level iteration has not reported convergence within
\* max_iter steps, the evaluation fails with NotConverged("Cross association")
\* and goes on neither to the derivative steps nor to an energy value.
C1_CapIsFatal ==
    /\ solver.pc \in {"derivatives", "done"} => solver.reported
    /\ solver.pc = "failed" =>
          solver.error = Some([kind |-> "NotConverged",
                               message |-> "Cross association"])

\* C2: GcPcSaft::with_options pushes no association contribution when
\* assoc_segment is empty, Association when it has one entry, and
\* CrossAssociation carrying the options' cap and tolerance when it has more.
C2_AssociationByCount ==
    (phase = "facade" /\ kind # "dft") =>
        LET f == unwrap(facade)
            a == Len(params.assoc_segment)
            chosen == AssociationOf(f.contributions)
        IN CASE a = 0 -> chosen = <<>>
             [] a = 1 -> chosen = << Contribution("association", "Association") >>
             [] OTHER ->
                  chosen = << [role |-> "association", name |-> "CrossAssociation",
                               max_iter |-> f.options.max_iter_cross_assoc,
                               tol |-> f.options.tol_cross_assoc] >>

\* C2 witness: an EOS facade over two or more association entries, built with
\* options other than the default
C2_Witness ==
    /\ phase = "facade"
    /\ kind = "eos"
    /\ Len(params.assoc_segment) >= 2
    /\ unwrap(facade).options # default_options

\* C3: the contributions of every facade are hard-sphere, hard-chain,
\* dispersion and then, exactly when there are association entries,
\* association: three or four entries, none twice.
C3_ContributionOrder ==
    phase = "facade" =>
        Roles(unwrap(facade).contributions) =
            IF params.assoc_segment = <<>>
            THEN <<"hard-sphere", "hard-chain", "dispersion">>
            ELSE <<"hard-sphere", "hard-chain", "dispersion", "association">>

\* C3 witness: a functional facade with four contributions
C3_Witness ==
    /\ phase = "facade"
    /\ kind = "dft"
    /\ Len(unwrap(facade).contributions) = 4

\* C4: in every assembled parameter set, subsets included, k_ij is zero
\* between two entries of the same molecule.
C4_NoSelfInteraction ==
    \A p \in Assembled :
        \A i, j \in Entries(p) :
            p.component_index[i] = p.component_index[j] => p.k_ij[i][j] = 0

\* C4 witness: a subset of two molecules in which a binary record exists for
\* two entries of one molecule and k_ij is non-zero between two molecules
C4_Witness ==
    /\ phase = "subset"
    /\ is_some(unwrap(sub).binary_segment_records)
    /\ LET p == unwrap(sub)
           inserts == binary_map_inserts(unwrap(p.binary_segment_records))
       IN /\ \E i, j \in Entries(p) :
                /\ i # j
                /\ p.component_index[i] = p.component_index[j]
                /\ is_some(binary_map_get(inserts, p.identifiers[i],
                                          p.identifiers[j]))
          /\ \E i, j \in Entries(p) : p.k_ij[i][j] # 0

\* C5: sigma_ij, epsilon_k_ij, sigma3_kappa_aibj, epsilon_k_aibj and k_ij are
\* symmetric in every assembled parameter set.
C5_Symmetry ==
    \A p \in Assembled :
        /\ Symmetric(p.sigma_ij)
        /\ Symmetric(p.epsilon_k_ij)
        /\ Symmetric(p.sigma3_kappa_aibj)
        /\ Symmetric(p.epsilon_k_aibj)
        /\ Symmetric(p.k_ij)

\* C5 witness: the binary records give one pair in both orders with different
\* values, k_ij is non-zero somewhere, and two different association entries
\* are combined
C5_Witness ==
    /\ phase = "assembled"
    /\ is_some(binary_segment_records)
    /\ LET records == unwrap(binary_segment_records)
       IN \E a, b \in 1..Len(records) :
             /\ records[a].id1 = records[b].id2
             /\ records[a].id2 = records[b].id1
             /\ records[a].model_record # records[b].model_record
    /\ \E i, j \in Entries(params) : params.k_ij[i][j] # 0
    /\ \E i, j \in 1..Len(params.kappa_ab) : params.kappa_ab[i] # params.kappa_ab[j]

\* the topologies at the positions of component_list, taken from the input
Selected ==
    [k \in 1..Len(component_list) |-> chemical_records[component_list[k] + 1]]

\* C6: the m array of subset(list) equals the m array of every assembly of the
\* listed topologies alone with the same segment and binary records.
C6_SubsetEqualsDirect ==
    phase = "subset" =>
        \A orders \in run_orders(kind, Selected) :
            unwrap(sub).m =
                from_segments(kind, Selected, segment_records,
                              binary_segment_records, orders).m

\* C7 as claimed: the A-B-A molecule alone gives component_index = [0, 0, 0],
\* exactly the bonds (0, 1) and (1, 2), and molar weight 2 * mw_A + mw_B.
C7_ThreeEntries ==
    (phase = "assembled" /\ chemical_records = <<propane>>) =>
        /\ params.component_index = <<0, 0, 0>>
        /\ (IF kind = "dft" THEN Range(params.bonds.edges) ELSE DOMAIN params.bonds)
              = {<<0, 1>>, <<1, 2>>}
        /\ params.molarweight
              = << 2 * record_of("CH3").molarweight + record_of("CH2").molarweight >>

\* C7 amended: the molar weight is 2 * mw_A + mw_B in every variant; the
\* functional variant gives component_index = [0, 0, 0] and the two edges
\* (0, 1), (1, 2); the two counting variants merge the two A into one entry
\* with m = 2 * m_A, giving component_index = [0, 0] and the single bond key
\* between the A and the B entry with weight 2.
C7_PerVariant ==
    (phase = "assembled" /\ chemical_records = <<propane>>) =>
        /\ params.molarweight
              = << 2 * record_of("CH3").molarweight + record_of("CH2").molarweight >>
        /\ IF kind = "dft"
           THEN /\ params.component_index = <<0, 0, 0>>
                /\ params.bonds.edges = << <<0, 1>>, <<1, 2>> >>
           ELSE /\ params.component_index = <<0, 0>>
                /\ DOMAIN params.bonds = {<<0, 1>>}
                /\ params.bonds[<<0, 1>>] = 2
                /\ \E e \in 1..2 :
                      /\ params.identifiers[e] = "CH3"
                      /\ params.m[e] = 2 * record_of("CH3").m

\* C7 witness: the A-B-A molecule assembled by the EOS variant
C7_Witness ==
    /\ phase = "assembled"
    /\ chemical_records = <<propane>>
    /\ kind = "eos"

\* the sum of a sequence of numbers
RECURSIVE Sum(_)
Sum(numbers) ==
    IF numbers = <<>> THEN 0 ELSE Head(numbers) + Sum(Tail(numbers))

\* the per-segment arrays of a parameter set all have the given length
PerSegmentLength(p, len) ==
    /\ Len(p.component_index) = len
    /\ Len(p.m) = len
    /\ Len(p.sigma) = len
    /\ Len(p.epsilon_k) = len

\* C8 as claimed: the per-segment arrays are as long as the total number of
\* segment instances of the molecules.
C8_LengthIsInstances ==
    \A p \in Assembled :
        LET instances(molecule) == Len(molecule.segments)
        IN PerSegmentLength(p, Sum([k \in DOMAIN p.chemical_records |->
                                        instances(p.chemical_records[k])]))

\* C8 amended: in the functional variant the per-segment arrays are as long as
\* the total number of segment instances; in the two counting variants they
\* are as long as the number of distinct segment identifiers, summed over the
\* molecules.
C8_LengthPerVariant ==
    \A p \in Assembled :
        LET instances(molecule) == Len(molecule.segments)
            distinct(molecule) == Cardinality(Range(molecule.segments))
        IN IF p.kind = "dft"
           THEN PerSegmentLength(p, Sum([k \in DOMAIN p.chemical_records |->
                                        instances(p.chemical_records[k])]))
           ELSE PerSegmentLength(p, Sum([k \in DOMAIN p.chemical_records |->
                                        distinct(p.chemical_records[k])]))

\* C8 witness: a counting variant assembled a molecule that repeats an
\* identifier, next to a second molecule
C8_Witness ==
    /\ phase = "assembled"
    /\ kind = "gc"
    /\ Len(chemical_records) = 2
    /\ \E c \in 1..2 :
          Cardinality(Range(chemical_records[c].segments))
              < Len(chemical_records[c].segments)

\* C9: component_index never decreases along the flattened index, every value
\* is a position of molarweight, and the entries of a molecule are contiguous.
C9_ComponentIndexMonotone ==
    \A p \in Assembled :
        /\ \A i, j \in Entries(p) :
              i <= j => p.component_index[i] <= p.component_index[j]
        /\ \A i \in Entries(p) :
              p.component_index[i] \in 0..(Len(p.molarweight) - 1)
        /\ \A i, j, l \in Entries(p) :
              (i < j /\ j < l /\ p.component_index[i] = p.component_index[l])
                  => p.component_index[j] = p.component_index[i]

\* C9 witness: two molecules, each with at least two entries
C9_Witness ==
    /\ phase = "assembled"
    /\ Len(params.molarweight) = 2
    /\ \A c \in 0..1 :
          Cardinality({i \in Entries(params) : params.component_index[i] = c}) >= 2

\* C10: the per-segment arrays share one length n and the three segment
\* matrices are n x n; the association arrays share one length a and the two
\* association matrices are a x a; assoc_segment is strictly increasing with
\* values below n.
C10_SharedAxes ==
    \A p \in Assembled :
        LET n == Len(p.component_index)
            a == Len(p.assoc_segment)
        IN /\ Len(p.identifiers) = n
           /\ PerSegmentLength(p, n)
           /\ Square(p.sigma_ij, n)
           /\ Square(p.epsilon_k_ij, n)
           /\ Square(p.k_ij, n)
           /\ Len(p.kappa_ab) = a
           /\ Len(p.epsilon_k_ab) = a
           /\ Len(p.na) = a
           /\ Len(p.nb) = a
           /\ Square(p.sigma3_kappa_aibj, a)
           /\ Square(p.epsilon_k_aibj, a)
           /\ \A i, j \in 1..a : i < j => p.assoc_segment[i] < p.assoc_segment[j]
           /\ \A i \in 1..a : p.assoc_segment[i] \in 0..(n - 1)

\* C10 witness: at least two association entries among more segment entries,
\* the last entry being an association entry
C10_Witness ==
    /\ phase = "assembled"
    /\ Len(params.assoc_segment) >= 2
    /\ Len(params.component_index) > Len(params.assoc_segment)
    /\ params.assoc_segment[Len(params.assoc_segment)]
          = Len(params.component_index) - 1

----------------------------------------------------------------------------
(* C11: unknown segment identifiers. *)

\* the identifiers the input topologies reference without a segment record
Absent ==
    UNION {Range(chemical_records[k].segments) : k \in DOMAIN chemical_records}
    \ {segment_records[k].identifier : k \in DOMAIN segment_records}

\* from_segments returned an error of the given kind that names an absent
\* identifier, and nothing else: no array, no matrix, no facade, no subset
FailedNaming(error) ==
    /\ phase = "failed"
    /\ params = [ok |-> FALSE, error |-> error, id |-> params.id]
    /\ params.id \in Absent
    /\ sub = None /\ facade = None

----------------------------------------------------------------------------
(* C12: queried names without a catalogue record. *)

\* the distinct queried names that no record of the catalogue file carries,
\* in the order of the query
Unmatched ==
    LET names == {unwrap(file_pure[k].identifier) :
                     k \in {j \in 1..Len(file_pure) : is_some(file_pure[j].identifier)}}
        unmatched(name) == name \notin names
    IN SelectSeq(first_appearance(loader.substances), unmatched)

\* C12: when some queried names are not in the catalogue, from_json_segments
\* fails with ComponentsNotFound whose message is the list of all unmatched
\* queried names and of nothing else, and only the catalogue file has been
\* opened by then.
C12_AllMissingAtOnce ==
    (loader.pc \notin {"idle", "called", "compare"} /\ Unmatched # <<>>) =>
        /\ loader.pc = "failed"
        /\ params = LoadError("ComponentsNotFound", debug_format(Unmatched))
        /\ loader.opened = <<"file_pure">>

\* C12 witness: a query of one matched and two unmatched names has failed
C12_Witness ==
    /\ loader.pc = "failed"
    /\ Len(Unmatched) = 2
    /\ "propane" \in Range(loader.substances)

----------------------------------------------------------------------------
(* C13: which entries are association entries. *)

\* the segment record with the given identifier
RecordNamed(id) ==
    CHOOSE r \in Range(segment_records) : r.identifier = id

\* C13: a flattened entry is listed in assoc_segment exactly when its segment
\* record gives both kappa_ab and epsilon_k_ab; the entry then carries these
\* two values, and na and nb are the record's values, or 1 where the record
\* gives none.
C13_AssociationIffBoth ==
    \A p \in Assembled :
        /\ \A e \in Entries(p) :
              (e - 1) \in Range(p.assoc_segment)
                 <=> /\ RecordNamed(p.identifiers[e]).kappa_ab # None
                     /\ RecordNamed(p.identifiers[e]).epsilon_k_ab # None
        /\ \A a \in 1..Len(p.assoc_segment) :
              LET r == RecordNamed(p.identifiers[p.assoc_segment[a] + 1])
              IN /\ p.kappa_ab[a] = r.kappa_ab[1]
                 /\ p.epsilon_k_ab[a] = r.epsilon_k_ab[1]
                 /\ p.na[a] = IF r.na = None THEN 1 ELSE r.na[1]
                 /\ p.nb[a] = IF r.nb = None THEN 1 ELSE r.nb[1]

\* C13 witness: a parameter set with an entry whose record gives kappa_ab
\* only, one whose record gives epsilon_k_ab only, an association entry with
\* defaulted site counts and one with given site counts
C13_Witness ==
    /\ phase = "assembled"
    /\ {"CH2", "CH3", "OH", "NH2"} \subseteq Range(params.identifiers)

----------------------------------------------------------------------------
(* C14, C15: the derivative steps and repeated evaluations. *)

\* the site fractions after n Newton steps from x at the state of `in`
RECURSIVE Stepped(_, _, _)
Stepped(x, in, n) ==
    IF n = 0 THEN x
    ELSE Stepped(newton_step_cross_association(x, in.deltarho, in.na, in.nb,
                                               in.tol).x,
                 in, n - 1)

\* C14: once the value-level iteration has reported convergence, x_dual is the
\* converged x with the Newton step applied once per derivative step taken,
\* whatever flags these steps returned; the energy is computed after exactly
\* NDERIV such steps, from the result of the last one.
C14_DerivativeSteps ==
    (solver.pc \in {"derivatives", "done"} /\ solver.reported) =>
        /\ solver.dual_steps <= solver.in.nderiv
        /\ Len(solver.flags) = solver.dual_steps
        /\ solver.x_dual = Stepped(solver.x, solver.in, solver.dual_steps)
        /\ solver.pc = "done" =>
              /\ solver.dual_steps = solver.in.nderiv
              /\ solver.energy_from = Some(solver.x_dual)

\* C14 witness: an evaluation with a second-derivative type returned after
\* convergence and two further steps, each of which moved the site fractions
C14_Witness ==
    /\ solver.pc = "done"
    /\ solver.reported
    /\ solver.in.nderiv = 2
    /\ solver.dual_steps = 2
    /\ Stepped(solver.x, solver.in, 1) # solver.x
    /\ solver.x_dual # Stepped(solver.x, solver.in, 1)

\* C15: every evaluation starts its iteration from 0.2 in every entry, the
\* association parameters it reads are those of the evaluations before it,
\* and its outcome equals the outcome of every earlier evaluation made with
\* the same parameters, options and state.
C15_SameInputsSameOutcome ==
    solver.pc # "idle" =>
        /\ (solver.pc = "loop" /\ solver.steps = 0) =>
              solver.x = <<one \div 5, one \div 5>>
        /\ \A s \in solver.seen :
              s.in.na = solver.in.na /\ s.in.nb = solver.in.nb
        /\ solver.pc \in {"done", "failed"} =>
              \A s \in solver.seen :
                 s.in = solver.in => s.outcome = outcome(solver)

\* C15 witness: the third evaluation returned an energy; the first was made
\* at the same state and the second at another one
C15_Witness ==
    /\ solver.pc = "done"
    /\ solver.calls = 3
    /\ \E s \in solver.seen : s.in = solver.in
    /\ \E s \in solver.seen : s.in # solver.in /\ s.outcome.ok

----------------------------------------------------------------------------
(* C19: bond lengths. *)

\* C19: the graph returned by bond_lengths(temperature) has the node count of
\* the stored bond graph and the same edges with the same endpoints in the
\* same order; the weight of edge (i, j) is half the sum of the diameters of
\* entries i and j at that temperature; the stored parameter set is still the
\* one assembly produced.
C19_BondLengths ==
    (returned # None /\ returned[1].query = "bond_lengths") =>
        LET graph == returned[1].graph
            d == hs_diameter(params, returned[1].temperature)
        IN /\ graph.nodes = params.bonds.nodes
           /\ Len(graph.edges) = Len(params.bonds.edges)
           /\ \A e \in 1..Len(graph.edges) :
                 /\ graph.edges[e].endpoints = params.bonds.edges[e]
                 /\ 2 * graph.edges[e].weight
                       \in { d[params.bonds.edges[e][1] + 1]
                             + d[params.bonds.edges[e][2] + 1] - r : r \in {0, 1} }
           /\ params = dft_from_segments(chemical_records, segment_records,
                                         binary_segment_records)

\* C19 witness: bond lengths of a two-molecule mixture with an edge between
\* two entries of different diameter
C19_Witness ==
    /\ returned # None
    /\ returned[1].query = "bond_lengths"
    /\ Len(chemical_records) = 2
    /\ \E e \in 1..Len(returned[1].graph.edges) :
          LET d == hs_diameter(params, returned[1].temperature)
              ends == returned[1].graph.edges[e].endpoints
          IN ends[1] >= 2 /\ d[ends[1] + 1] # d[ends[2] + 1]

----------------------------------------------------------------------------
(* C18: epsilon_k_ij and the binary interaction records. *)

\* the binary records of a parameter set as a sequence
BinaryList(p) ==
    IF p.binary_segment_records = None THEN <<>> ELSE p.binary_segment_records[1]

\* the positions of the binary records given for the identifiers of entries
\* i and j, in either order
Matching(p, i, j) ==
    {t \in 1..Len(BinaryList(p)) :
        \/ /\ BinaryList(p)[t].id1 = p.identifiers[i]
           /\ BinaryList(p)[t].id2 = p.identifiers[j]
        \/ /\ BinaryList(p)[t].id1 = p.identifiers[j]
           /\ BinaryList(p)[t].id2 = p.identifiers[i]}

\* sqrt(epsilon_k_i * epsilon_k_j), and the same corrected by k (in percent)
GeometricMean(p, i, j) ==
    CHOOSE r \in 0..Max({p.epsilon_k[i], p.epsilon_k[j]}) :
        r * r = p.epsilon_k[i] * p.epsilon_k[j]

Corrected(p, i, j, k) == (GeometricMean(p, i, j) * (100 - k)) \div 100

\* C18 as claimed: between entries of different molecules, epsilon_k_ij is the
\* geometric mean corrected by the value of any binary record given for the
\* two identifiers; in every other case it is the geometric mean.
C18_AnyRecord ==
    \A p \in Assembled :
        \A i, j \in Entries(p) :
            IF p.component_index[i] # p.component_index[j] /\ Matching(p, i, j) # {}
            THEN \A t \in Matching(p, i, j) :
                    p.epsilon_k_ij[i][j]
                       = Corrected(p, i, j, BinaryList(p)[t].model_record)
            ELSE p.epsilon_k_ij[i][j] = GeometricMean(p, i, j)

\* C18 amended: between entries of different molecules, epsilon_k_ij is the
\* geometric mean corrected by the value of the last binary record of the
\* list given for the two identifiers (in either order); in every other case
\* it is the geometric mean.
C18_LastRecord ==
    \A p \in Assembled :
        \A i, j \in Entries(p) :
            IF p.component_index[i] # p.component_index[j] /\ Matching(p, i, j) # {}
            THEN p.epsilon_k_ij[i][j]
                    = Corrected(p, i, j,
                                BinaryList(p)[Max(Matching(p, i, j))].model_record)
            ELSE p.epsilon_k_ij[i][j] = GeometricMean(p, i, j)

\* C18 witness: two records with different values are given for a pair of
\* entries of different molecules, and a record is given for two different
\* entries of one molecule
C18_Witness ==
    /\ phase = "assembled"
    /\ \E i, j \in Entries(params) :
          /\ params.component_index[i] # params.component_index[j]
          /\ \E t, u \in Matching(params, i, j) :
                BinaryList(params)[t].model_record
                   # BinaryList(params)[u].model_record
    /\ \E i, j \in Entries(params) :
          /\ i # j
          /\ params.component_index[i] = params.component_index[j]
          /\ Matching(params, i, j) # {}

----------------------------------------------------------------------------
(* C20: the EOS and the functional assembler describe the same bulk fluid. *)

\* the sum over the entries of molecule c (0-based) of m * sigma^power
MoleculeSum(p, c, power) ==
    Sum([e \in 1..Len(p.m) |->
            IF p.component_index[e] # c THEN 0
            ELSE IF power = 0 THEN p.m[e]
            ELSE p.m[e] * p.sigma[e] * p.sigma[e] * p.sigma[e]])

\* the sum of the values of a bond map
RECURSIVE WeightSum(_)
WeightSum(bonds) ==
    IF DOMAIN bonds = {} THEN 0
    ELSE LET k == CHOOSE x \in DOMAIN bonds : TRUE
         IN bonds[k] + WeightSum([x \in DOMAIN bonds \ {k} |-> bonds[x]])

\* C20: when the EOS assembler has assembled a molecule list, the functional
\* assembler assembles the same list too, and for every molecule the two give
\* the same molar weight, the same sum of m and the same sum of m * sigma^3
\* over its entries; the bond weights of the EOS variant add up to the number
\* of edges of the functional variant.
C20_SameBulkFluid ==
    (phase = "assembled" /\ kind = "eos") =>
        LET f == dft_from_segments(chemical_records, segment_records,
                                   binary_segment_records)
        IN /\ f.ok
           /\ f.molarweight = params.molarweight
           /\ \A c \in 0..(Len(chemical_records) - 1) :
                 /\ MoleculeSum(f, c, 0) = MoleculeSum(params, c, 0)
                 /\ MoleculeSum(f, c, 3) = MoleculeSum(params, c, 3)
           /\ WeightSum(params.bonds) = Len(f.bonds.edges)

\* C20 witness: the EOS assembler merged repeated identifiers of a molecule
\* with two bonds between the same identifiers, next to a second molecule
C20_Witness ==
    /\ phase = "assembled"
    /\ kind = "eos"
    /\ Len(chemical_records) = 2
    /\ Len(params.m) < Len(chemical_records[1].segments)
                         + Len(chemical_records[2].segments)
    /\ \E k \in DOMAIN params.bonds : params.bonds[k] >= 2

-----------------------------------------------------------------------------
(* C17: the two branches of the site-fraction functions. *)

\* the absolute value of an integer
Magnitude(n) == IF n < 0 THEN -n ELSE n

\* the site fraction X_A of an evaluation with the association strength
\* deltarho and the site counts of the finished evaluation
SiteFractionAt(deltarho) ==
    site_fractions([solver.in EXCEPT !.deltarho = deltarho]).xa[1]

\* values within 1/256 and derivatives within 1/8 of each other
Agree(a, b) ==
    /\ Magnitude(a.re - b.re) <= unit \div 256
    /\ Magnitude(a.eps - b.eps) <= unit \div 8

\* C17: for assoc_site_frac_a (nb = 0) and assoc_site_frac_ab (nb > 0), the
\* value and the derivative of the closed-form branch just above the
\* switching threshold agree with those of the series branch at the
\* threshold, and at and below the threshold the site fraction tends to 1 as
\* deltarho tends to 0: it is at most 1 and differs from 1 by no more than
\* deltarho times the larger site count.
C17_BranchesAgree ==
    solver.pc = "association_done" =>
        /\ solver.in.deltarho = sqrt_epsilon + 1 =>
               Agree(solver.xa[1], SiteFractionAt(sqrt_epsilon))
        /\ solver.in.deltarho <= sqrt_epsilon =>
               /\ solver.xa[1].re <= unit
               /\ unit - solver.xa[1].re
                      <= solver.in.deltarho * Max({solver.in.na, solver.in.nb})

\* the same statement for assoc_site_frac_ab alone
C17_TwoSiteBranchesAgree ==
    (solver.pc = "association_done" /\ solver.in.nb > 0) => C17_BranchesAgree

\* an evaluation of the closed-form branch next to the threshold
C17_Witness ==
    /\ solver.pc = "association_done"
    /\ solver.in.deltarho = sqrt_epsilon + 1
    /\ solver.in.nb = 0
    /\ solver.xa[1].re > 2 * unit

-----------------------------------------------------------------------------
(* C21: the maximum density. *)

\* pi/6 * m * sigma^3 of the segment record of an identifier, in thousandths
SegmentVolume(id) ==
    frac_pi_6 * record_of(id).m
        * record_of(id).sigma * record_of(id).sigma * record_of(id).sigma

\* the sum over the molecules of the mole number times the volumes of all
\* segments listed in the molecule's topology
PackedVolume(moles) ==
    Sum([k \in 1..Len(chemical_records) |->
            moles[k] * Sum([s \in 1..Len(chemical_records[k].segments) |->
                               SegmentVolume(chemical_records[k].segments[s])])])

\* the sum over the flattened entries of pi/6 * m * sigma^3 times the mole
\* number of the entry's molecule
EntryVolume(p, moles) ==
    Sum([i \in 1..Len(p.m) |->
            frac_pi_6 * p.m[i] * p.sigma[i] * p.sigma[i] * p.sigma[i]
                * moles[p.component_index[i] + 1]])

\* C21: the density returned by compute_max_density(moles) is the ceiling
\* max_eta of the facade's options (50 percent by default) times the sum of
\* the mole numbers, divided by the sum over the flattened entries of
\* pi/6 * m * sigma^3 weighted with the mole number of the entry's molecule;
\* that sum is the volume of all segments of the topologies, so the EOS and
\* the functional facade return the same density for the same mixture.
C21_MaxDensity ==
    (returned # None /\ returned[1].query = "compute_max_density") =>
        LET moles == returned[1].moles
            eta == unwrap(facade).options.max_eta
        IN /\ default_options.max_eta = 50
           /\ eta \in {o.max_eta : o \in OptionChoices}
           /\ EntryVolume(params, moles) = PackedVolume(moles)
           /\ PackedVolume(moles) = 0 => returned[1].density = NaN
           /\ PackedVolume(moles) > 0 =>
                 /\ returned[1].density
                       = (eta * Sum(moles) * density_scale)
                             \div EntryVolume(params, moles)
                 /\ returned[1].density
                       = (eta * Sum(moles) * density_scale)
                             \div PackedVolume(moles)

\* C21 witness: the density of a two-molecule mixture with different mole
\* numbers, assembled by the EOS variant with a merged repeated segment
C21_Witness ==
    /\ returned # None
    /\ returned[1].query = "compute_max_density"
    /\ kind = "eos"
    /\ Len(chemical_records) = 2
    /\ returned[1].moles[1] # returned[1].moles[2]
    /\ Len(params.m) < Len(chemical_records[1].segments)
                         + Len(chemical_records[2].segments)
    /\ returned[1].density # NaN

-----------------------------------------------------------------------------
(* C22: the matrix of a Newton step. *)

\* a Newton step is about to be taken from the current iterate
StepPending ==
    \/ solver.pc = "loop" /\ solver.k < solver.in.max_iter
    \/ solver.pc = "derivatives" /\ solver.dual_steps < solver.in.nderiv

\* the iterate the pending step starts from
Iterate == IF solver.pc = "loop" THEN solver.x ELSE solver.x_dual

\* the pending step
PendingStep ==
    newton_step_cross_association(Iterate, solver.in.deltarho,
                                  solver.in.na, solver.in.nb, solver.in.tol)

\* the exact derivative -1 / x^2 of 1 / x, in units of 1/one
ExactDiagonal(x) == (-(one * one * one)) \div (x * x)

\* two fixed-point numbers are equal up to the rounding of two divisions
Close(a, b) == Magnitude(a - b) <= 2

\* C22 as stated: for every iterate the diagonal entries of the matrix of the
\* step are the exact derivatives -1 / x_A^2 and -1 / x_B^2, and the
\* off-diagonal entries are -n_B * Delta * rho and -n_A * Delta * rho.
C22_ExactJacobian ==
    StepPending =>
        /\ Close(PendingStep.h[1][1], ExactDiagonal(Iterate[1]))
        /\ Close(PendingStep.h[2][2], ExactDiagonal(Iterate[2]))
        /\ PendingStep.h[1][2] = -(solver.in.nb * solver.in.deltarho)
        /\ PendingStep.h[2][1] = -(solver.in.na * solver.in.deltarho)

\* C22 amended: the off-diagonal entries are -n_B * Delta * rho and
\* -n_A * Delta * rho, and the diagonal entry for x_A is
\* -(1 + n_B * x_B * Delta * rho) / x_A, which is the exact derivative
\* -1 / x_A^2 plus g_A / x_A (likewise for B): the two coincide where the
\* gradient component is zero, and differ at the starting point 0.2.
C22_MichelsenMatrix ==
    StepPending =>
        LET r == PendingStep
            xa == Iterate[1]
            xb == Iterate[2]
            d == solver.in.deltarho
        IN /\ r.h[1][2] = -(solver.in.nb * d)
           /\ r.h[2][1] = -(solver.in.na * d)
           /\ r.h[1][1] = (-(((xb * solver.in.nb * d) \div one + one) * one)) \div xa
           /\ r.h[2][2] = (-(((xa * solver.in.na * d) \div one + one) * one)) \div xb
           /\ Close(r.h[1][1], ExactDiagonal(xa) + (r.g[1] * one) \div xa)
           /\ Close(r.h[2][2], ExactDiagonal(xb) + (r.g[2] * one) \div xb)
           /\ r.g = <<0, 0>> =>
                 /\ Close(r.h[1][1], ExactDiagonal(xa))
                 /\ Close(r.h[2][2], ExactDiagonal(xb))
           /\ Iterate = initial_site_fractions =>
                 ~Close(r.h[1][1], ExactDiagonal(xa))

\* C22 witness: a step is pending from an iterate other than the starting
\* point, whose gradient is not zero and whose diagonal entry is not the exact
\* derivative
C22_Witness ==
    /\ StepPending
    /\ solver.steps >= 1
    /\ PendingStep.g[1] # 0
    /\ ~Close(PendingStep.h[1][1], ExactDiagonal(Iterate[1]))

-----------------------------------------------------------------------------
(* C23: decisions are taken on real parts. *)

\* the inputs with another derivative part
WithEps(in, e) == [in EXCEPT !.eps = e]

\* the value-level loop from the iterate x at pass k, computed from the real
\* parts of the inputs alone: the number of steps taken, whether the last one
\* reported convergence, and whether the evaluation failed
RECURSIVE ValueLoop(_, _, _)
ValueLoop(x, in, k) ==
    IF k >= in.max_iter
    THEN [steps |-> k, converged |-> FALSE, failed |-> FALSE]
    ELSE LET r == newton_step_cross_association(x, in.deltarho, in.na, in.nb,
                                                in.tol)
         IN IF r.converged
            THEN [steps |-> k + 1, converged |-> TRUE, failed |-> FALSE]
            ELSE IF k = in.max_iter - 1
            THEN [steps |-> k + 1, converged |-> FALSE, failed |-> TRUE]
            ELSE ValueLoop(r.x, in, k + 1)

\* C23: the closed-form contribution takes the closed-form branch exactly when
\* the real part of deltarho exceeds sqrt(machine epsilon), and the real part
\* of its site fraction is the same for every derivative part of deltarho;
\* the number of value-level Newton steps of the solver, its convergence flag
\* and its failure are those the real parts of the inputs determine, and an
\* earlier evaluation whose inputs differ in the derivative part only had the
\* same outcome.
C23_RealPartsDecide ==
    /\ solver.pc = "association_done" =>
          /\ solver.branch = Some(IF solver.in.deltarho > sqrt_epsilon
                                  THEN "closed" ELSE "series")
          /\ \A e \in {0, unit} :
                site_fractions(WithEps(solver.in, e)).xa[1].re = solver.xa[1].re
    /\ solver.pc \in {"derivatives", "done", "failed"} =>
          LET v == ValueLoop(initial_site_fractions, solver.in, 0)
          IN /\ solver.steps = v.steps
             /\ solver.reported = v.converged
             /\ (solver.pc = "failed") = v.failed
    /\ solver.pc \in {"done", "failed"} =>
          \A s \in solver.seen :
             (\E e \in {0, one} : s.in = WithEps(solver.in, e))
                 => s.outcome = outcome(solver)

\* C23 witness: a converged evaluation of at least two steps after an
\* evaluation that differed in the derivative part only
C23_Witness ==
    /\ solver.pc = "done"
    /\ solver.reported
    /\ solver.steps >= 2
    /\ \E s \in solver.seen :
          /\ s.in # solver.in
          /\ s.in = WithEps(solver.in, s.in.eps)

\* C23 witness of the closed-form contribution: an evaluation just above the
\* threshold with a non-zero derivative part
C23_WitnessBranch ==
    /\ solver.pc = "association_done"
    /\ solver.in.deltarho = sqrt_epsilon + 1
    /\ solver.in.eps = unit
    /\ solver.branch = Some("closed")

-----------------------------------------------------------------------------
(* C24: the nodes of the bond graph. *)

\* C24: the bond graph of every parameter set assembled by the functional
\* variant has exactly one node per flattened segment entry.
C24_OneNodePerEntry ==
    \A p \in Assembled : p.kind = "dft" => p.bonds.nodes = Len(p.m)

\* what the graph holds instead: nodes exist up to the largest endpoint of an
\* edge, so the entries after the last bonded segment have no node
C24_NodesUpToLastBond ==
    \A p \in Assembled :
        p.kind = "dft" =>
            /\ p.bonds.nodes <= Len(p.m)
            /\ p.bonds.nodes
                  = IF p.bonds.edges = <<>> THEN 0
                    ELSE 1 + Max({p.bonds.edges[e][2] : e \in 1..Len(p.bonds.edges)}
                                 \cup {p.bonds.edges[e][1] : e \in 1..Len(p.bonds.edges)})

\* a functional parameter set of a list that ends with a molecule of one
\* segment and no bond
C24_TrailingSingleSegment ==
    /\ phase = "assembled"
    /\ kind = "dft"
    /\ Len(chemical_records) = 2
    /\ chemical_records[2].bonds = <<>>
    /\ params.bonds.nodes = Len(params.m) - 1

-----------------------------------------------------------------------------
(* C25: the association contribution and the associating segment instances. *)

\* the number of segments of a topology whose record carries both association
\* parameters, repeated identifiers counted once per occurrence
AssociatingInstances(record) ==
    Cardinality({s \in 1..Len(record.segments) :
                    /\ is_some(record_of(record.segments[s]).kappa_ab)
                    /\ is_some(record_of(record.segments[s]).epsilon_k_ab)})

\* C25: the EOS facade holds the closed-form Association contribution exactly
\* when the molecules of the mixture contain one associating segment instance
\* in total, and the CrossAssociation solver whenever a molecule contains two
\* or more associating segment instances.
C25_ClosedFormForOneInstance ==
    (phase = "facade" /\ kind = "eos") =>
        LET chosen == AssociationOf(unwrap(facade).contributions)
            total == Sum([k \in 1..Len(chemical_records) |->
                             AssociatingInstances(chemical_records[k])])
        IN /\ (chosen # <<>> /\ chosen[1].name = "Association") <=> total = 1
           /\ (\E k \in 1..Len(chemical_records) :
                  AssociatingInstances(chemical_records[k]) >= 2)
                 => (chosen # <<>> /\ chosen[1].name = "CrossAssociation")

\* an EOS facade over the one molecule glycol, whose two OH segments are one
\* association entry with count 2, holding the closed-form contribution
C25_GlycolClosedForm ==
    /\ phase = "facade"
    /\ kind = "eos"
    /\ Len(chemical_records) = 1
    /\ AssociatingInstances(chemical_records[1]) = 2
    /\ params.n = <<2>>
    /\ AssociationOf(unwrap(facade).contributions)
          = << Contribution("association", "Association") >>

-----------------------------------------------------------------------------
(* C26: the convergence flag and the update of one step. *)

\* the gradient g at the site fractions x
GradientAt(x, in) ==
    << recip(x[1]) - ((x[2] * in.nb * in.deltarho) \div one + one),
       recip(x[2]) - ((x[1] * in.na * in.deltarho) \div one + one) >>

\* the iterate after j value-level steps of the current evaluation
IterateAfter(j) == Stepped(initial_site_fractions, solver.in, j)

\* C26: when the value-level loop has left with convergence reported after
\* n steps, the gradient norm was below tol at the iterate before step n and
\* at no earlier iterate, and the site fractions the solver goes on with are
\* that iterate with the update of step n applied.
C26_FlagBeforeUpdate ==
    (solver.pc \in {"derivatives", "done"} /\ solver.reported) =>
        /\ solver.steps >= 1
        /\ norm_below(GradientAt(IterateAfter(solver.steps - 1), solver.in),
                      solver.in.tol)
        /\ \A j \in 0..(solver.steps - 2) :
              ~norm_below(GradientAt(IterateAfter(j), solver.in), solver.in.tol)
        /\ solver.x = Stepped(IterateAfter(solver.steps - 1), solver.in, 1)
        /\ solver.x = IterateAfter(solver.steps)
        /\ solver.dual_steps = 0 => solver.x_dual = solver.x

\* C26 witness: convergence was reported in the third step, whose update
\* moved the site fractions, and the gradient at the accepted site fractions
\* differs from the one the flag was computed from
C26_Witness ==
    /\ solver.pc = "derivatives"
    /\ solver.reported
    /\ solver.steps = 3
    /\ solver.x # IterateAfter(2)
    /\ GradientAt(solver.x, solver.in) # GradientAt(IterateAfter(2), solver.in)

-----------------------------------------------------------------------------
(* C27: termination of an evaluation. *)

\* the evaluation has returned or failed
Finished == solver.pc \in {"done", "failed"}

\* the bounds of the steps of an evaluation: at most max_iter value-level
\* steps from the one starting point, none after the first reported
\* convergence, failure only without convergence at the cap, and NDERIV
\* further steps before the energy
StepBounds ==
    solver.pc \in {"loop", "derivatives", "done", "failed"} =>
        /\ solver.steps <= solver.in.max_iter
        /\ solver.dual_steps <= solver.in.nderiv
        /\ solver.steps + solver.dual_steps <= solver.in.max_iter + solver.in.nderiv
        /\ solver.pc = "loop" =>
              /\ ~solver.reported
              /\ solver.dual_steps = 0
              /\ solver.x = IterateAfter(solver.steps)
        /\ solver.pc = "failed" =>
              /\ ~solver.reported
              /\ solver.steps = solver.in.max_iter
              /\ solver.dual_steps = 0
        /\ solver.reported => solver.pc # "failed"
        /\ solver.pc = "done" => solver.dual_steps = solver.in.nderiv

\* C27: the steps of every evaluation stay within these bounds, and every
\* evaluation that is called returns or fails.
C27_Terminates ==
    /\ []StepBounds
    /\ (solver.pc = "called") ~> Finished

\* C27 witness: an evaluation that converged in the last permitted pass
\* returned after max_iter + NDERIV steps
C27_Witness ==
    /\ solver.pc = "done"
    /\ solver.reported
    /\ solver.in.max_iter >= 2
    /\ solver.steps = solver.in.max_iter
    /\ solver.in.nderiv = 2
    /\ solver.dual_steps = 2

-----------------------------------------------------------------------------
(* C28: the bond keys of the EOS variant. *)

\* the parameter sets whose bonds are a map from index pairs to weights
WithBondMap == {p \in Assembled : p.kind \in {"eos", "gc"}}

\* the keys of the bond map that lie in molecule c (0-based)
KeysOf(p, c) == {key \in DOMAIN p.bonds : p.component_index[key[1] + 1] = c}

\* C28: every bond key [i1, i2] of an assembled parameter set is ordered,
\* lies within the flattened entries and joins two entries of one molecule,
\* and the weights of the keys of a molecule add up to the number of bonds of
\* the molecule's topology.
C28_BondKeys ==
    \A p \in WithBondMap :
        /\ \A key \in DOMAIN p.bonds :
              /\ 0 <= key[1]
              /\ key[1] <= key[2]
              /\ key[2] < Len(p.m)
              /\ p.component_index[key[1] + 1] = p.component_index[key[2] + 1]
        /\ \A c \in 0..(Len(p.chemical_records) - 1) :
              WeightSum([key \in KeysOf(p, c) |-> p.bonds[key]])
                  = Len(p.chemical_records[c + 1].bonds)

\* C28 witness: an EOS parameter set of two molecules whose second molecule
\* has a bond between two merged occurrences of one identifier and a bond
\* whose second identifier got the smaller index
C28_Witness ==
    /\ phase = "assembled"
    /\ kind = "eos"
    /\ Len(chemical_records) = 2
    /\ chemical_records[1].bonds # <<>>
    /\ \E key \in KeysOf(params, 1) : key[1] = key[2]
    /\ \E key \in KeysOf(params, 1) :
          /\ key[1] < key[2]
          /\ \E b \in 1..Len(chemical_records[2].bonds) :
                LET bond == chemical_records[2].bonds[b]
                IN /\ params.identifiers[key[2] + 1]
                         = chemical_records[2].segments[bond[1] + 1]
                   /\ params.identifiers[key[1] + 1]
                         = chemical_records[2].segments[bond[2] + 1]

-----------------------------------------------------------------------------
(* C29: the molecules of a parameter set loaded by name. *)

\* the position of the first occurrence of a name in a list that contains it
FirstIndex(list, name) ==
    CHOOSE k \in 1..Len(list) :
        /\ list[k] = name
        /\ \A j \in 1..(k - 1) : list[j] # name

\* the names of the molecules of a parameter set, in order
MoleculeNames(p) ==
    [k \in 1..Len(p.chemical_records) |-> p.chemical_records[k].name]

\* C29: when from_json_segments has returned a parameter set, its molecules
\* are the distinct queried names: as many as there are distinct names, each
\* name once, in the order in which the names first appear in the query.
C29_QueriedOrder ==
    (loader.pc = "returned" /\ params.ok) =>
        LET names == MoleculeNames(params)
        IN /\ Len(names) = Cardinality(Range(loader.substances))
           /\ Range(names) = Range(loader.substances)
           /\ \A i, j \in 1..Len(names) :
                 i < j => FirstIndex(loader.substances, names[i])
                              < FirstIndex(loader.substances, names[j])

\* C29 witness: methanol was queried twice, before and after propane, which
\* precedes it in the catalogue file
C29_Witness ==
    /\ loader.pc = "returned"
    /\ params.ok
    /\ loader.substances = <<"methanol", "propane", "methanol">>
    /\ MoleculeNames(params) = <<"methanol", "propane">>

-----------------------------------------------------------------------------
(* C30: to_markdown. *)

\* C30: to_markdown of an assembled EOS parameter set completes without an
\* index out of range: identifiers, n, m, sigma and epsilon_k, which it
\* indexes with the flattened segment index, have at least m.len() entries.
C30_MarkdownCompletes ==
    (returned # None /\ returned[1].query = "to_markdown") =>
        /\ returned[1].result.ok
        /\ Len(params.identifiers) >= Len(params.m)
        /\ Len(params.n) >= Len(params.m)
        /\ Len(params.sigma) >= Len(params.m)
        /\ Len(params.epsilon_k) >= Len(params.m)

\* what holds instead: n has one entry per association entry, and to_markdown
\* completes exactly when every flattened entry is an association entry
C30_CompletesIffAllAssociating ==
    (returned # None /\ returned[1].query = "to_markdown") =>
        /\ Len(params.n) = Len(params.assoc_segment)
        /\ returned[1].result.ok <=> Len(params.assoc_segment) = Len(params.m)
        /\ ~returned[1].result.ok => returned[1].result.index = Len(params.n)

\* to_markdown of methanol (CH3 without association, OH with association)
\* panics
C30_MethanolPanics ==
    /\ returned # None
    /\ returned[1].query = "to_markdown"
    /\ Len(chemical_records) = 1
    /\ chemical_records[1].name = "methanol"
    /\ ~returned[1].result.ok

====
